---- MODULE Spec2Model ----
(***************************************************************************)
(* News-analyzer: the RSS fetch / retain / analyse / cache pipeline of the *)
(* local Express server (index.js) as a state machine.                     *)
(*                                                                         *)
(* One Node.js event loop runs everything, so every action below is one    *)
(* run-to-completion turn of the loop: it starts where a callback or an    *)
(* await continuation starts and ends at the next await (or at the end of  *)
(* the handler).  JS null is the empty tuple <<>>, a present value x is    *)
(* the one-element tuple <<x>>.                                            *)
(***************************************************************************)
EXTENDS Integers, Sequences, FiniteSets, TLC

VARIABLES
    rawArticles,          \* category -> [articles, isLoading, lastError]
    analysisCache,        \* category -> [timestamp, data, isAnalyzing, analysisStartTime]
    initialLoadComplete,  \* the flag of the same name
    initialLoadPending,   \* TRUE while initialLoadPromise is unresolved
    waiters,              \* requests suspended on `await initialLoadPromise`, in order
    now,                  \* Date.now(), ms since the process started
    fetcher,              \* position and locals of the running fetchAllFeeds
    polling,              \* "off": not listening yet, "initial": first cycle awaited,
                          \* "interval": setInterval installed
    requests,             \* slot -> the GET /api/articles/:category handler in it
    lastMerge,            \* history: the inputs of the latest dedupe/sort/slice
    chats,                \* slot -> the api.js handler in it
    lastCall,             \* history: the latest call of a function taken alone
    widget                \* the chat widget of one browser page (chat.js)

vars == <<rawArticles, analysisCache, initialLoadComplete, initialLoadPending,
          waiters, now, fetcher, polling, requests, lastMerge,
                   chats, lastCall, widget>>

(***************************************************************************)
(* Bounds of the explored runs.                                            *)
(***************************************************************************)
MaxRequests == 2    \* request slots (handlers in flight at once)
MaxCycles == 2      \* fetch cycles explored
MaxItems == 1       \* items one feed returns at most
MaxUrls == 11       \* distinct urls offered to the merge taken alone
MaxFetched == 2     \* articles one merge taken alone is given
MaxAnalyzed == 6    \* annotated articles one partition taken alone is given
MaxChunks == 2      \* data events of one recording
MaxRun == 3         \* articles retained when an analysis run taken alone starts
MaxMixed == 3       \* annotated articles of a partition over non-number scores
MaxBody == 3        \* messages in the chat body
MaxPending == 2     \* requests of the page under way at once
MaxRecorders == 2   \* recorders the page makes

(***************************************************************************)
(* Program constants.                                                      *)
(***************************************************************************)
CACHE_DURATION == 300000
INITIAL_LOAD_TIMEOUT == 10000
maxRetries == 3
RetainedCount == 10
FeedDelayMs == 2000
ParserTimeout == 5000
PollIntervalMs == 300000
MaxAudioBytes == 25165824
FetchErrorMessage == "Failed to fetch articles from any source for this category"

Null == <<>>
Some(x) == <<x>>
Min(a, b) == IF a < b THEN a ELSE b

(***************************************************************************)
(* RSS_FEEDS, in source order, and the grouping fetchAllFeeds makes of it. *)
(***************************************************************************)
RSS_FEEDS ==
    << [category |-> "breaking",   host |-> "timesofindia.indiatimes.com",
        url |-> "timesofindia/topstories"],
       [category |-> "technology", host |-> "timesofindia.indiatimes.com",
        url |-> "timesofindia/66949542"],
       [category |-> "business",   host |-> "economictimes.indiatimes.com",
        url |-> "economictimes/63319172"],
       [category |-> "science",    host |-> "timesofindia.indiatimes.com",
        url |-> "timesofindia/-2128672765"],
       [category |-> "health",     host |-> "www.thehindu.com",
        url |-> "thehindu/health"],
       [category |-> "breaking",   host |-> "www.hindustantimes.com",
        url |-> "hindustantimes/india"] >>

\* Object.keys(rawArticles): the five configured categories, in literal order.
CategoryOrder == <<"breaking", "technology", "business", "science", "health">>
Categories == {CategoryOrder[i] : i \in 1..Len(CategoryOrder)}

RECURSIVE SelectSeq2(_, _)
\* The subsequence of feeds of category c, in RSS_FEEDS order (the reduce).
SelectSeq2(s, c) ==
    IF s = <<>> THEN <<>>
    ELSE IF Head(s).category = c
         THEN <<Head(s)>> \o SelectSeq2(Tail(s), c)
         ELSE SelectSeq2(Tail(s), c)

feedsByCategory(c) == SelectSeq2(RSS_FEEDS, c)

RECURSIVE FirstSeen(_, _)
\* Insertion order of the keys of feedsByCategory: categories by first feed.
FirstSeen(s, acc) ==
    IF s = <<>> THEN acc
    ELSE IF \E i \in 1..Len(acc) : acc[i] = Head(s).category
         THEN FirstSeen(Tail(s), acc)
         ELSE FirstSeen(Tail(s), Append(acc, Head(s).category))

CycleOrder == FirstSeen(RSS_FEEDS, <<>>)

(***************************************************************************)
(* Feed items and articles.  pubDate is a time in ms, NoDate (the item     *)
(* carries none: the fetch time is used) or BadDate (unparseable: the      *)
(* toISOString() of an invalid Date throws a RangeError).                  *)
(***************************************************************************)
NoDate == -1
BadDate == -2

\* fetchAllFeeds, the items.map callback: one feed item to one article.
\* title is feedData.title (Null when the feed has none); feed.host is
\* feed.url.split('/')[2].
NewArticle(item, t, feed, title) ==
    [category |-> feed.category,
     title |-> item.title,
     content |-> item.content,
     url |-> item.link,
     source |-> IF title # Null THEN title[1] ELSE feed.host,
     timestamp |-> IF item.pubDate = NoDate THEN t ELSE item.pubDate]

RECURSIVE NewArticles(_, _, _, _)
NewArticles(items, t, feed, title) ==
    IF items = <<>> THEN <<>>
    ELSE <<NewArticle(Head(items), t, feed, title)>>
         \o NewArticles(Tail(items), t, feed, title)

\* The map throws when any item has an invalid date.
MapThrows(items) == \E i \in 1..Len(items) : items[i].pubDate = BadDate

RECURSIVE MapKeepFirst(_, _)
\* A map that ignores a key it already holds: the first entry of a url wins.
MapKeepFirst(entries, acc) ==
    IF entries = <<>> THEN acc
    ELSE LET a == Head(entries)
         IN  IF \E i \in 1..Len(acc) : acc[i].url = a.url
             THEN MapKeepFirst(Tail(entries), acc)
             ELSE MapKeepFirst(Tail(entries), Append(acc, a))

RECURSIVE MapSetAll(_, _)
\* new Map(entries): a key keeps the position of its first entry and the
\* value of its last one.
MapSetAll(entries, acc) ==
    IF entries = <<>> THEN acc
    ELSE LET a == Head(entries)
             hit == {i \in 1..Len(acc) : acc[i].url = a.url}
         IN  IF hit = {}
             THEN MapSetAll(Tail(entries), Append(acc, a))
             ELSE MapSetAll(Tail(entries),
                            [i \in 1..Len(acc) |-> IF i \in hit THEN a ELSE acc[i]])

RECURSIVE MapSetNewest(_, _)
\* A map that replaces the value of a key only by one at least as new.
MapSetNewest(entries, acc) ==
    IF entries = <<>> THEN acc
    ELSE LET a == Head(entries)
             hit == {i \in 1..Len(acc) : acc[i].url = a.url}
         IN  IF hit = {}
             THEN MapSetNewest(Tail(entries), Append(acc, a))
             ELSE MapSetNewest(Tail(entries),
                     [i \in 1..Len(acc) |->
                        IF i \in hit /\ a.timestamp >= acc[i].timestamp
                        THEN a ELSE acc[i]])

\* Deduplication that keeps, for each url, the entry with the newest timestamp.
uniqueNewest(combined) == MapSetNewest(combined, <<>>)

\* Array.from(new Map(combined.map(a => [a.url, a])).values())
uniqueArticles(combined) == MapSetAll(combined, <<>>)

RECURSIVE InsertDesc(_, _)
\* Stable insertion: a goes behind every element at least as new.
InsertDesc(a, s) ==
    IF s = <<>> THEN <<a>>
    ELSE IF Head(s).timestamp >= a.timestamp
         THEN <<Head(s)>> \o InsertDesc(a, Tail(s))
         ELSE <<a>> \o s

RECURSIVE SortDesc(_, _)
SortDesc(s, acc) ==
    IF s = <<>> THEN acc ELSE SortDesc(Tail(s), InsertDesc(Head(s), acc))

\* The list as it is, the sort left out.
keepOrder(s) == s

\* .sort((a, b) => new Date(b.timestamp) - new Date(a.timestamp)): stable.
sortByTimestamp(s) == SortDesc(s, <<>>)

slice(s, n) == SubSeq(s, 1, Min(Len(s), n))

\* fetchAllFeeds, the categorySuccess branch: the new retained list.
MergeArticles(existing, allArticles) ==
    slice(sortByTimestamp(uniqueArticles(existing \o allArticles)), RetainedCount)

(***************************************************************************)
(* fetchWithRetry.  `outcomes` is what parser.parseURL does on attempts    *)
(* 1..maxRetries: Null when it rejects, Some(feedData) when it resolves;   *)
(* `jitters` is Math.random() * 1000 after each failed attempt, in whole   *)
(* ms.  The operator gives the result of a whole call: the first success,  *)
(* or the failure of the last attempt, with the attempts made and the      *)
(* delays waited between them.  The fetcher below takes the same call one  *)
(* event-loop turn at a time.                                              *)
(***************************************************************************)
BackoffBase == 1000

\* The backoff with the exponent one too high.
BackoffFromTwo(attempt, jitter) == 1000 * 2^attempt + jitter

\* delay(1000 * Math.pow(2, attempt - 1) + jitter)
Backoff(attempt, jitter) == BackoffBase * 2^(attempt - 1) + jitter

RECURSIVE RetryFrom(_, _, _, _)
RetryFrom(attempt, outcomes, jitters, delays) ==
    IF outcomes[attempt] # Null
    THEN [ok |-> TRUE, feedData |-> outcomes[attempt][1], attempts |-> attempt,
          delays |-> delays]
    ELSE IF attempt = maxRetries
         THEN [ok |-> FALSE, feedData |-> [title |-> Null, items |-> <<>>],
               attempts |-> attempt, delays |-> delays]
         ELSE RetryFrom(attempt + 1, outcomes, jitters,
                        Append(delays, Backoff(attempt, jitters[attempt])))

fetchWithRetry(outcomes, jitters) == RetryFrom(1, outcomes, jitters, <<>>)

(***************************************************************************)
(* The feed fetcher: fetchAllFeeds.  pc is the await the function is       *)
(* suspended on: "fetch" (the parseURL attempt of fetchWithRetry for the   *)
(* current feed), "backoff" (the delay after a failed attempt),            *)
(* "feedDelay" (the delay(2000) after a feed), or "idle" (no cycle         *)
(* running).  attempts is the loop variable `attempt` of the call in       *)
(* progress and started the time its parseURL was called; due is the time  *)
(* the pending delay elapses and nextPoll the time the setInterval timer   *)
(* of line 241 fires next (0: not installed).                              *)
(***************************************************************************)
IdleFetcher ==
    [pc |-> "idle", cat |-> 0, feed |-> 0, attempts |-> 0, started |-> 0,
     failed |-> 0,
     allArticles |-> <<>>, categorySuccess |-> FALSE, cycles |-> 0,
     due |-> 0, nextPoll |-> 0]

CurCategory == CycleOrder[fetcher.cat]
CurFeeds == feedsByCategory(CurCategory)

\* Lines 257-261: the head of the loop body for the category at index k.
BeginCategory(raw, k) ==
    [raw EXCEPT ![CycleOrder[k]].isLoading = TRUE,
                ![CycleOrder[k]].lastError = Null]

\* The tail of the loop body with the test of categorySuccess negated.
EndCategoryNegated(raw, c, success, all) ==
    IF ~success
    THEN [raw EXCEPT ![c].articles =
                        slice(sortByTimestamp(uniqueArticles(raw[c].articles \o all)),
                              RetainedCount),
                     ![c].lastError = Null,
                     ![c].isLoading = FALSE]
    ELSE [raw EXCEPT ![c].lastError = Some("Failed to fetch articles from any source for this category"),
                     ![c].isLoading = FALSE]

\* The tail of the loop body that also empties the list when all feeds fail.
EndCategoryClears(raw, c, success, all) ==
    IF success
    THEN [raw EXCEPT ![c].articles =
                        slice(sortByTimestamp(uniqueArticles(raw[c].articles \o all)),
                              RetainedCount),
                     ![c].lastError = Null,
                     ![c].isLoading = FALSE]
    ELSE [raw EXCEPT ![c].articles = <<>>,
                     ![c].lastError = Some("Failed to fetch articles from any source for this category"),
                     ![c].isLoading = FALSE]

\* The tail of the loop body that clears isLoading only after a success.
EndCategoryStaysLoading(raw, c, success, all) ==
    IF success
    THEN [raw EXCEPT ![c].articles = MergeArticles(raw[c].articles, all),
                     ![c].lastError = Null,
                     ![c].isLoading = FALSE]
    ELSE [raw EXCEPT ![c].lastError = Some(FetchErrorMessage)]

\* Lines 288-308: the tail of the loop body for category c.
EndCategory(raw, c, success, all) ==
    IF success
    THEN [raw EXCEPT ![c].articles = MergeArticles(raw[c].articles, all),
                     ![c].lastError = Null,
                     ![c].isLoading = FALSE]
    ELSE [raw EXCEPT ![c].lastError = Some(FetchErrorMessage),
                     ![c].isLoading = FALSE]

\* The handlers in flight at once, of index.js and of api.js.
Slots == 1..MaxRequests

\* An uncaught exception has ended the process: no timer fires and no
\* awaited call resumes after it.
Crashed == \E r \in Slots : chats[r].pc = "uncaught"

\* A call of fetchAllFeeds at time t runs synchronously up to the first
\* parseURL of its first fetchWithRetry.  `poll` is the time the interval
\* timer fires next.
StartCycle(t, poll) ==
    /\ ~Crashed
    /\ rawArticles' = BeginCategory(rawArticles, 1)
    /\ fetcher' = [pc |-> "fetch", cat |-> 1, feed |-> 1, attempts |-> 1,
                   started |-> t, failed |-> 0,
                   allArticles |-> <<>>, categorySuccess |-> FALSE,
                   cycles |-> fetcher.cycles + 1,
                   due |-> 0, nextPoll |-> poll]

\* app.listen's callback: initializeRSSPolling up to `await fetchAllFeeds()`.
Listen ==
    /\ polling = "off"
    /\ polling' = "initial"
    /\ StartCycle(now, 0)
    /\ UNCHANGED <<analysisCache, initialLoadComplete, initialLoadPending,
                   waiters, now, requests, lastMerge,
                   chats, lastCall, widget>>

\* setInterval(fetchAllFeeds, 5 min) fires, 5 min after it was installed
\* or fired last.  A cycle lasts at most
\* 6 feeds * (3 * 5 s timeout + 5 s backoff + 2 s delay) < 5 min, so the
\* previous cycle has ended.
PollInterval ==
    /\ polling = "interval"
    /\ fetcher.pc = "idle"
    /\ fetcher.cycles < MaxCycles
    /\ now' = fetcher.nextPoll
    /\ StartCycle(fetcher.nextPoll, fetcher.nextPoll + PollIntervalMs)
    /\ UNCHANGED <<analysisCache, initialLoadComplete, initialLoadPending,
                   waiters, requests, lastMerge, polling,
                   chats, lastCall, widget>>

\* Timers fire in the order they are due: the initial-load timer, set at
\* module load, fires before a delay that is due at 10 s or later.
TimerIsNext ==
    ~(initialLoadPending /\ fetcher.due >= INITIAL_LOAD_TIMEOUT)

\* The time by which the event the fetcher waits for has happened: the end
\* of its delay, or the parser's timeout (line 132) for the parseURL it
\* awaits.
FetcherDeadline ==
    IF fetcher.pc = "fetch" THEN fetcher.started + ParserTimeout
    ELSE fetcher.due

\* The time of an answer that comes `latency` ms from now.
AnswerTime(latency) == Min(now + latency, fetcher.started + ParserTimeout)

\* An answer at time t comes before the initial-load timer fires; at 10 s
\* sharp the answer of the feed may come first, the parser's timeout, set
\* later than the initial-load timer, may not.
AnswerIsNext(t) ==
    \/ ~initialLoadPending
    \/ t < INITIAL_LOAD_TIMEOUT
    \/ t = INITIAL_LOAD_TIMEOUT /\ t < fetcher.started + ParserTimeout

\* `await parser.parseURL(feed.url)` settles with `outcome` (Null: it
\* rejects), `latency` ms from now or when the parser's timeout after the
\* call is reached, if that is sooner: the clock is moved to the time of
\* the answer, at which the rest of the turn runs.  A resolved attempt ends fetchWithRetry
\* (line 192) and lines 266-284 follow in the same turn, new Date() of line
\* 275 read then, the map throwing into the catch of line 281; a rejected
\* attempt is followed by the backoff of line 202 with `jitter`, or by the
\* throw of line 198 into the same catch when it was the last.  After the
\* feed, `await delay(2000)`.  failed is history: the feeds of the category
\* that exhausted their retries.
FetchSettles(outcome, jitter, latency) ==
    /\ ~Crashed
    /\ fetcher.pc = "fetch"
    /\ AnswerIsNext(AnswerTime(latency))
    /\ now' = AnswerTime(latency)
    /\ LET feed == CurFeeds[fetcher.feed]
           t == AnswerTime(latency)
       IN  fetcher' =
             IF outcome # Null /\ ~MapThrows(outcome[1].items)
             THEN [fetcher EXCEPT !.pc = "feedDelay",
                                  !.due = t + FeedDelayMs,
                                  !.allArticles = @ \o
                                     NewArticles(outcome[1].items, t, feed,
                                                 outcome[1].title),
                                  !.categorySuccess = TRUE]
             ELSE IF outcome # Null
             THEN [fetcher EXCEPT !.pc = "feedDelay",
                                  !.due = t + FeedDelayMs]
             ELSE IF fetcher.attempts < maxRetries
             THEN [fetcher EXCEPT !.pc = "backoff",
                                  !.due = t + Backoff(fetcher.attempts, jitter)]
             ELSE [fetcher EXCEPT !.pc = "feedDelay",
                                  !.due = t + FeedDelayMs,
                                  !.failed = @ + 1]
    /\ UNCHANGED <<rawArticles, analysisCache, initialLoadComplete,
                   initialLoadPending, waiters, requests, lastMerge, polling,
                   chats, lastCall, widget>>

\* The backoff of line 202 elapses: the next attempt is made.
BackoffElapsed ==
    /\ ~Crashed
    /\ fetcher.pc = "backoff"
    /\ TimerIsNext
    /\ now' = fetcher.due
    /\ fetcher' = [fetcher EXCEPT !.pc = "fetch", !.attempts = @ + 1,
                                  !.started = fetcher.due, !.due = 0]
    /\ UNCHANGED <<rawArticles, analysisCache, initialLoadComplete,
                   initialLoadPending, waiters, requests, lastMerge, polling,
                   chats, lastCall, widget>>

\* delay(2000) elapses: the next feed of the category, or the end of the
\* category and, in the same turn, the head of the next one or the end of
\* the cycle (and of initializeRSSPolling's await, for the first cycle).
\* `record` says whether the history variable lastMerge is kept.
FeedDelayElapsed(record) ==
    /\ ~Crashed
    /\ fetcher.pc = "feedDelay"
    /\ TimerIsNext
    /\ now' = fetcher.due
    /\ IF fetcher.feed < Len(CurFeeds)
       THEN /\ fetcher' = [fetcher EXCEPT !.pc = "fetch", !.feed = @ + 1,
                                          !.attempts = 1,
                                          !.started = fetcher.due, !.due = 0]
            /\ UNCHANGED <<rawArticles, lastMerge, initialLoadComplete, polling>>
       ELSE LET c == CurCategory
                ended == EndCategory(rawArticles, c, fetcher.categorySuccess,
                                     fetcher.allArticles)
            IN  /\ lastMerge' =
                     IF record /\ fetcher.categorySuccess
                     THEN Some([category |-> c,
                                existing |-> rawArticles[c].articles,
                                fetched |-> fetcher.allArticles,
                                failed |-> fetcher.failed])
                     ELSE lastMerge
                /\ IF fetcher.cat < Len(CycleOrder)
                   THEN /\ rawArticles' = BeginCategory(ended, fetcher.cat + 1)
                        /\ fetcher' = [fetcher EXCEPT !.pc = "fetch",
                                          !.cat = @ + 1, !.feed = 1,
                                          !.attempts = 1,
                                          !.started = fetcher.due,
                                          !.failed = 0,
                                          !.allArticles = <<>>,
                                          !.categorySuccess = FALSE,
                                          !.due = 0]
                        /\ UNCHANGED <<initialLoadComplete, polling>>
                   ELSE /\ rawArticles' = ended
                        /\ fetcher' =
                             [IdleFetcher EXCEPT
                                !.cycles = fetcher.cycles,
                                !.nextPoll =
                                   IF polling = "initial"
                                   THEN fetcher.due + PollIntervalMs
                                   ELSE fetcher.nextPoll]
                        /\ initialLoadComplete' =
                             IF polling = "initial" THEN TRUE
                             ELSE initialLoadComplete
                        /\ polling' = "interval"
    /\ UNCHANGED <<analysisCache, initialLoadPending, waiters, requests,
                   chats, lastCall, widget>>

(***************************************************************************)
(* The sentiment annotator.  Scores are in tenths: sentiment_score 0.3 is  *)
(* 3.  An LLM reply is [kind |-> "error"] (the call rejects), [kind |->    *)
(* "text"] (content that JSON.parse rejects) or [kind |-> "json", ...]     *)
(* with the fields of the parsed object.  A field that is a number n is    *)
(* Some(n), a missing field (undefined) is Null, and a field that is       *)
(* another JSON value is a pair <<n, kind>>: JsonNull, JsonBool(b), the    *)
(* string NumericString(n) that reads as the number n ("0.8", and "" for   *)
(* 0), or the string OtherString that reads as no number ("high").         *)
(***************************************************************************)
PositiveThreshold == 3
TopCount == 5

NumericString(n) == <<n, 1>>
OtherString == <<0, 2>>
JsonNull == <<0, 3>>
JsonBool(b) == <<IF b THEN 10 ELSE 0, 4>>

\* The value is a JSON number.
IsNumber(v) == Len(v) = 1

\* The number the operators >, <, >=, <= and - make of a value before they
\* compare or subtract: Null here is NaN.  undefined and a string that is
\* no numeral give NaN; null gives 0, true 1, false 0, a numeral its value.
ToNumber(v) ==
    IF v = Null THEN Null
    ELSE IF IsNumber(v) THEN v
    ELSE IF v = OtherString THEN Null
    ELSE Some(v[1])

\* A catch branch that leaves the score out.
FallbackUnscored(article) ==
    [title |-> article.title, url |-> article.url,
     source |-> article.source, timestamp |-> article.timestamp,
     summary |-> "Analysis temporarily unavailable",
     overall_sentiment |-> "neutral",
     sentiment_score |-> Null, bias_level |-> Some(0),
     manipulative_score |-> Some(0),
     positive |-> "?",
     negative |-> "Analysis temporarily unavailable"]

\* analyzeSentiment, the catch branch.
FallbackAnalysis(article) ==
    [title |-> article.title, url |-> article.url,
     source |-> article.source, timestamp |-> article.timestamp,
     summary |-> "Analysis temporarily unavailable",
     overall_sentiment |-> "neutral",
     sentiment_score |-> Some(0), bias_level |-> Some(0),
     manipulative_score |-> Some(0),
     positive |-> "?",
     negative |-> "Analysis temporarily unavailable"]

\* analyzeSentiment: the try branch copies the parsed fields unchecked.
analyzeSentiment(article, reply) ==
    IF reply.kind = "json"
    THEN [title |-> article.title, url |-> article.url,
          source |-> article.source, timestamp |-> article.timestamp,
          summary |-> reply.summary,
          overall_sentiment |-> reply.sentiment,
          sentiment_score |-> reply.sentiment_score,
          bias_level |-> reply.bias_level,
          manipulative_score |-> reply.manipulative_score,
          positive |-> reply.mood,
          negative |-> reply.bias]
    ELSE FallbackAnalysis(article)

\* The positive filter with the threshold included.
IsPositiveInclusive(a) ==
    LET n == ToNumber(a.sentiment_score)
    IN  n # Null /\ n[1] >= 3

\* a.sentiment_score > 0.3 and the like: the score is coerced to a number,
\* and a comparison with NaN is false.
IsPositive(a) ==
    LET n == ToNumber(a.sentiment_score)
    IN  n # Null /\ n[1] > PositiveThreshold
IsNegative(a) ==
    LET n == ToNumber(a.sentiment_score)
    IN  n # Null /\ n[1] < -PositiveThreshold
IsNeutral(a) ==
    LET n == ToNumber(a.sentiment_score)
    IN  /\ n # Null
        /\ n[1] >= -PositiveThreshold
        /\ n[1] <= PositiveThreshold

RECURSIVE FilterPositive(_)
FilterPositive(s) ==
    IF s = <<>> THEN <<>>
    ELSE (IF IsPositive(Head(s)) THEN <<Head(s)>> ELSE <<>>)
         \o FilterPositive(Tail(s))

RECURSIVE FilterNegative(_)
FilterNegative(s) ==
    IF s = <<>> THEN <<>>
    ELSE (IF IsNegative(Head(s)) THEN <<Head(s)>> ELSE <<>>)
         \o FilterNegative(Tail(s))

RECURSIVE FilterNeutral(_)
FilterNeutral(s) ==
    IF s = <<>> THEN <<>>
    ELSE (IF IsNeutral(Head(s)) THEN <<Head(s)>> ELSE <<>>)
         \o FilterNeutral(Tail(s))

RECURSIVE InsertByScore(_, _, _)
\* Stable insertion by score; sign is 1 for descending, -1 for ascending.
InsertByScore(a, s, sign) ==
    IF s = <<>> THEN <<a>>
    ELSE IF sign * ToNumber(Head(s).sentiment_score)[1]
               >= sign * ToNumber(a.sentiment_score)[1]
         THEN <<Head(s)>> \o InsertByScore(a, Tail(s), sign)
         ELSE <<a>> \o s

RECURSIVE SortByScore(_, _, _)
SortByScore(s, acc, sign) ==
    IF s = <<>> THEN acc
    ELSE SortByScore(Tail(s), InsertByScore(Head(s), acc, sign), sign)

\* analyzeArticles, lines 409-431, over the annotated articles.
Partition(analyzed) ==
    [positive |-> slice(SortByScore(FilterPositive(analyzed), <<>>, 1), TopCount),
     negative |-> slice(SortByScore(FilterNegative(analyzed), <<>>, -1), TopCount),
     neutral |-> slice(FilterNeutral(analyzed), TopCount),
     suggestions |-> <<>>]

(***************************************************************************)
(* GET /api/articles/:category.                                            *)
(***************************************************************************)
\* The lower-case property names every object inherits: `in` finds them.
ObjectPrototypeKeys == {"constructor", "__proto__"}

\* category in rawArticles
InRawArticles(c) == c \in Categories \cup ObjectPrototypeKeys

\* rawArticles[category]: an inherited property has none of the fields.
RawOf(raw, c) ==
    IF c \in Categories THEN raw[c]
    ELSE [articles |-> <<>>, isLoading |-> FALSE, lastError |-> Null]

\* fault is history: whether the handler's catch was entered, and from
\* where.
IdleRequest ==
    [pc |-> "idle", category |-> "", articles |-> <<>>, analyzed |-> <<>>,
     response |-> Null, fault |-> "none"]

Response(status, error, statusText, message, cache_status, data) ==
    [status |-> status, error |-> error, statusText |-> statusText,
     message |-> message, cache_status |-> cache_status, data |-> data,
     available_categories |-> Null, started_at |-> Null]

\* The handler returns: its locals are gone, its response is on the wire.
Done(req, resp) ==
    [req EXCEPT !.pc = "done", !.articles = <<>>, !.analyzed = <<>>,
                !.response = Some(resp)]

\* A handler that never suspends on the initial load.
NeverWait == FALSE

\* Line 442: the handler suspends on initialLoadPromise.
MustWait == ~initialLoadComplete

\* The freshness test with the comparison turned round.
FreshCacheReversed(cache, t) ==
    cache.data # Null /\ t - cache.timestamp > CACHE_DURATION

\* The freshness test with the boundary included.
FreshCacheInclusive(cache, t) ==
    cache.data # Null /\ t - cache.timestamp <= CACHE_DURATION

\* Line 493: cache?.data && cacheAge < CACHE_DURATION, at time t.
FreshCache(cache, t) ==
    cache.data # Null /\ t - cache.timestamp < CACHE_DURATION

\* A handler that does not look at the in-progress flag.
FlagIgnored(cache) == FALSE

\* Line 505: cache?.isAnalyzing
AnalysisInProgress(cache) == cache.isAnalyzing

\* Lines 449-452.
NotFoundResponse ==
    [Response(404, Some("Category not found"), Null, Null, Null, Null)
       EXCEPT !.available_categories = Some(CategoryOrder)]

\* Lines 458-462.
LoadingResponse ==
    Response(202, Null, Some("loading"), Some("Articles are being fetched"),
             Null, Null)

\* The error response without the stored message.
FetchErrorWithoutMessage(raw) ==
    Response(500, Some("Error fetching articles"), Null, Null, Null, Null)

\* Lines 467-471.
FetchErrorResponse(raw) ==
    Response(500, Some("Error fetching articles"), Null, raw.lastError,
             Null, Null)

\* Lines 477-481.
NoArticlesResponse ==
    Response(404, Some("No articles available"), Null,
             Some("Please try again in a few moments as articles are being fetched"),
             Null, Null)

\* Lines 495-502.
CachedResponse(cache, t) ==
    LET cacheAge == t - cache.timestamp
    IN  Response(200, Null, Null, Null,
                 Some([from_cache |-> TRUE,
                       age |-> cacheAge \div 1000,
                       expires_in |-> (CACHE_DURATION - cacheAge) \div 1000]),
                 cache.data)

\* Lines 507-512.
AnalyzingResponse(cache) ==
    [Response(202, Null, Some("analyzing"), Some("Articles are being analyzed"),
              Null, Null)
       EXCEPT !.started_at = cache.analysisStartTime]

\* A handler that looks at the cache before the state of the fetch.
HandleChecksCacheFirst(r, st, t) ==
    LET c == st.reqs[r].category
        raw == RawOf(rawArticles, c)
        reply(resp) == [st EXCEPT !.reqs[r] = Done(@, resp)]
    IN
    IF ~InRawArticles(c) THEN reply(NotFoundResponse)
    ELSE IF c \in Categories /\ FreshCache(st.cache[c], t)
    THEN reply(CachedResponse(st.cache[c], t))
    ELSE IF raw.isLoading THEN reply(LoadingResponse)
    ELSE IF raw.lastError # Null THEN reply(FetchErrorResponse(raw))
    ELSE IF raw.articles = <<>> THEN reply(NoArticlesResponse)
    ELSE IF AnalysisInProgress(st.cache[c]) THEN reply(AnalyzingResponse(st.cache[c]))
    ELSE [cache |-> [st.cache EXCEPT ![c].isAnalyzing = TRUE,
                                     ![c].analysisStartTime = Some(t)],
          reqs |-> [st.reqs EXCEPT ![r].pc = "annotating",
                                   ![r].articles = raw.articles,
                                   ![r].analyzed = <<>>]]

\* Lines 447-522, run in one turn at time t for the request in slot r: the
\* checks in source order, then either a response or the start of an
\* analysis (up to the first annotator call).  st is [cache, reqs]; the
\* result is the new st.
HandleChecks(r, st, t) ==
    LET c == st.reqs[r].category
        raw == RawOf(rawArticles, c)
        reply(resp) == [st EXCEPT !.reqs[r] = Done(@, resp)]
    IN
    IF ~InRawArticles(c) THEN reply(NotFoundResponse)
    ELSE IF raw.isLoading THEN reply(LoadingResponse)
    ELSE IF raw.lastError # Null THEN reply(FetchErrorResponse(raw))
    ELSE IF raw.articles = <<>> THEN reply(NoArticlesResponse)
    ELSE IF FreshCache(st.cache[c], t)
    THEN reply(CachedResponse(st.cache[c], t))
    ELSE IF AnalysisInProgress(st.cache[c]) THEN reply(AnalyzingResponse(st.cache[c]))
    ELSE [cache |-> [st.cache EXCEPT ![c].isAnalyzing = TRUE,
                                     ![c].analysisStartTime = Some(t)],
          reqs |-> [st.reqs EXCEPT ![r].pc = "annotating",
                                   ![r].articles = raw.articles,
                                   ![r].analyzed = <<>>]]

\* A promise whose continuations are never run.
ResumeNone(ws, st, t) == st

RECURSIVE ResumeAll(_, _, _)
\* The continuations of `await initialLoadPromise`, in registration order,
\* run at time t.
ResumeAll(ws, st, t) ==
    IF ws = <<>> THEN st
    ELSE ResumeAll(Tail(ws), HandleChecks(Head(ws), st, t), t)

\* A request arrives: lines 436-445, and the checks in the same turn when
\* the initial load is complete.  A slot whose handler has responded is
\* free; its last response stays readable until the slot is taken again.
Free(r) == requests[r].pc \in {"idle", "done"}

Receive(r, c) ==
    /\ ~Crashed
    /\ polling # "off"
    /\ Free(r)
    /\ LET arrived == [requests EXCEPT ![r] = [IdleRequest EXCEPT !.category = c]]
       IN  IF MustWait
           THEN /\ requests' = [arrived EXCEPT ![r].pc = "waiting"]
                /\ waiters' = Append(waiters, r)
                /\ UNCHANGED analysisCache
           ELSE LET st == HandleChecks(r, [cache |-> analysisCache, reqs |-> arrived],
                                      now)
                IN  /\ requests' = st.reqs
                    /\ analysisCache' = st.cache
                    /\ UNCHANGED waiters
    /\ UNCHANGED <<rawArticles, initialLoadComplete, initialLoadPending, now,
                   fetcher, polling, lastMerge,
                   chats, lastCall, widget>>

\* The setTimeout of lines 221-226 fires, 10 s after module load and after
\* every timer that is due sooner: the flag is set, the promise resolves
\* and every suspended handler continues, at the time the timer fires and
\* before any other event, whatever fetchAllFeeds is doing: it awaits a
\* delay that ends at 10 s or later, or a feed that has not answered yet
\* (the first cycle, with a delay of 2 s after each of its 6 feeds, is not
\* over).
InitialLoadTimeout ==
    /\ ~Crashed
    /\ polling # "off"
    /\ initialLoadPending
    /\ FetcherDeadline >= INITIAL_LOAD_TIMEOUT
    /\ now' = INITIAL_LOAD_TIMEOUT
    /\ initialLoadPending' = FALSE
    /\ initialLoadComplete' = TRUE
    /\ LET st == ResumeAll(waiters, [cache |-> analysisCache, reqs |-> requests],
                           INITIAL_LOAD_TIMEOUT)
       IN  /\ requests' = st.reqs
           /\ analysisCache' = st.cache
    /\ waiters' = <<>>
    /\ UNCHANGED <<rawArticles, fetcher, polling, lastMerge,
                   chats, lastCall, widget>>

\* An entry stored without clearing the in-progress flag.
AnalysisEntryInProgress(c, analysis, t) ==
    [timestamp |-> t,
     data |-> Some([category |-> c,
                    summary |-> [total_articles |-> Len(rawArticles[c].articles),
                                 analyzed_articles |-> Len(analysis.positive)
                                     + Len(analysis.negative) + Len(analysis.neutral),
                                 positive_count |-> Len(analysis.positive),
                                 negative_count |-> Len(analysis.negative),
                                 neutral_count |-> Len(analysis.neutral)],
                    articles |-> [positive |-> analysis.positive,
                                  negative |-> analysis.negative,
                                  neutral |-> analysis.neutral],
                    reader_suggestions |-> analysis.suggestions,
                    last_updated |-> t]),
     isAnalyzing |-> TRUE,
     analysisStartTime |-> Null]

\* Lines 525-546: the cache entry a completed analysis stores.
AnalysisEntry(c, analysis, t) ==
    [timestamp |-> t,
     data |-> Some([category |-> c,
                    summary |-> [total_articles |-> Len(rawArticles[c].articles),
                                 analyzed_articles |-> Len(analysis.positive)
                                     + Len(analysis.negative) + Len(analysis.neutral),
                                 positive_count |-> Len(analysis.positive),
                                 negative_count |-> Len(analysis.negative),
                                 neutral_count |-> Len(analysis.neutral)],
                    articles |-> [positive |-> analysis.positive,
                                  negative |-> analysis.negative,
                                  neutral |-> analysis.neutral],
                    reader_suggestions |-> analysis.suggestions,
                    last_updated |-> t]),
     isAnalyzing |-> FALSE,
     analysisStartTime |-> Null]

\* The LLM call of analyzeSentiment settles with `reply`: the article is
\* annotated and the next call is made, or, after the last article, the
\* result is partitioned, cached and sent (lines 397-431 and 522-555).
AnnotatorReturns(r, reply) ==
    /\ ~Crashed
    /\ requests[r].pc = "annotating"
    /\ LET req == requests[r]
           c == req.category
           article == req.articles[Len(req.analyzed) + 1]
           analyzed == Append(req.analyzed, analyzeSentiment(article, reply))
       IN  IF Len(analyzed) < Len(req.articles)
           THEN /\ requests' = [requests EXCEPT ![r].analyzed = analyzed]
                /\ UNCHANGED analysisCache
           ELSE LET entry == AnalysisEntry(c, Partition(analyzed), now)
                IN  /\ analysisCache' = [analysisCache EXCEPT ![c] = entry]
                    /\ requests' = [requests EXCEPT ![r] =
                         Done([req EXCEPT !.analyzed = analyzed],
                              Response(200, Null, Null, Null,
                                       Some([from_cache |-> FALSE,
                                             just_analyzed |-> TRUE]),
                                       entry.data))]
    /\ UNCHANGED <<rawArticles, initialLoadComplete, initialLoadPending,
                   waiters, now, fetcher, polling, lastMerge,
                   chats, lastCall, widget>>

\* A catch that answers without clearing the flag.
CatchKeepsFlag(entry) == entry

\* Lines 558-559: the catch of the handler clears the flag in place.
CatchEntry(entry) ==
    [entry EXCEPT !.isAnalyzing = FALSE, !.analysisStartTime = Null]

\* The 500 of lines 560-564 for the request req.
FailedResponse(req, from) ==
    [Done(req, Response(500,
                        Some("Internal server error while analyzing articles"),
                        Null, Some("analysis failed"), Null, Null))
       EXCEPT !.fault = from]

\* A catch that also records the failure in the category's raw state.
AnalysisFailsSetsError(r, reply, stored) ==
    /\ ~Crashed
    /\ requests[r].pc = "annotating"
    /\ Len(requests[r].analyzed) + 1 = Len(requests[r].articles)
    /\ LET c == requests[r].category
       IN  /\ analysisCache' = [analysisCache EXCEPT ![c] = CatchEntry(@)]
           /\ rawArticles' = [rawArticles EXCEPT
                                ![c].lastError = Some("analysis failed")]
           /\ requests' = [requests EXCEPT ![r] = FailedResponse(@, "analysis")]
    /\ UNCHANGED <<initialLoadComplete, initialLoadPending,
                   waiters, now, fetcher, polling, lastMerge,
                   chats, lastCall, widget>>

\* The handler's catch is entered (lines 556-565).  analyzeSentiment
\* catches its own errors and analyzeArticles those of each article (lines
\* 397-405), so the fault is in the code that follows the loop, in the turn
\* in which the call for the last article returns with `reply`: either
\* analyzeArticles rejects (lines 407-431) and the entry keeps its data, or
\* the code after the cache assignment throws (lines 548-555, `stored`) and
\* the catch finds the new entry.
AnalysisFails(r, reply, stored) ==
    /\ ~Crashed
    /\ requests[r].pc = "annotating"
    /\ Len(requests[r].analyzed) + 1 = Len(requests[r].articles)
    /\ LET req == requests[r]
           c == req.category
           article == req.articles[Len(req.analyzed) + 1]
           analyzed == Append(req.analyzed, analyzeSentiment(article, reply))
           entry == IF stored
                    THEN AnalysisEntry(c, Partition(analyzed), now)
                    ELSE analysisCache[c]
       IN  /\ analysisCache' = [analysisCache EXCEPT ![c] = CatchEntry(entry)]
           /\ requests' = [requests EXCEPT ![r] =
                FailedResponse(@, IF stored THEN "response" ELSE "analysis")]
    /\ UNCHANGED <<rawArticles, initialLoadComplete, initialLoadPending,
                   waiters, now, fetcher, polling, lastMerge,
                   chats, lastCall, widget>>

(***************************************************************************)
(* GET /api/articles (lines 569-587): synchronous, it waits for nothing.   *)
(* The route has no category: its handler record carries "".               *)
(***************************************************************************)
\* cache && cache.data && (Date.now() - cache.timestamp) < CACHE_DURATION:
\* null when there is no data, else the comparison.
HasAnalysis(cache, t) ==
    IF cache.data = Null THEN Null ELSE Some(t - cache.timestamp < CACHE_DURATION)

CategorySummary(c) ==
    [article_count |-> Len(rawArticles[c].articles),
     has_analysis |-> HasAnalysis(analysisCache[c], now),
     last_updated |-> IF Len(rawArticles[c].articles) > 0
                      THEN Some(rawArticles[c].articles[1].timestamp)
                      ELSE Null]

IndexResponse ==
    Response(200, Null, Null, Null, Null,
             Some([available_categories |-> CategoryOrder,
                   articles_per_category |->
                      [c \in Categories |-> CategorySummary(c)],
                   initial_load_complete |-> initialLoadComplete]))

\* The index handler that also marks the categories as being analyzed.
GetArticlesMarksAnalyzing(r) ==
    /\ ~Crashed
    /\ polling # "off"
    /\ Free(r)
    /\ requests' = [requests EXCEPT ![r] = Done(IdleRequest, IndexResponse)]
    /\ analysisCache' = [c \in Categories |->
                            [analysisCache[c] EXCEPT !.isAnalyzing = TRUE]]
    /\ UNCHANGED <<rawArticles, initialLoadComplete,
                   initialLoadPending, waiters, now, fetcher, polling,
                   lastMerge, chats, lastCall, widget>>

GetArticles(r) ==
    /\ ~Crashed
    /\ polling # "off"
    /\ Free(r)
    /\ requests' = [requests EXCEPT ![r] = Done(IdleRequest, IndexResponse)]
    /\ UNCHANGED <<rawArticles, analysisCache, initialLoadComplete,
                   initialLoadPending, waiters, now, fetcher, polling,
                   lastMerge, chats, lastCall, widget>>

\* Time passes between two fetch cycles, half a cache lifetime at a time.
\* A timer that is due fires before later events: the clock does not move
\* on past the time the interval timer is due.  Within a cycle the clock is
\* moved by the answers of the feeds and by the timers (a fetch lasts at
\* most 3 timeouts of 5 s and the backoffs, far less than d).
TickMs == CACHE_DURATION \div 2

Tick(d) ==
    /\ polling = "interval"
    /\ fetcher.pc = "idle"
    /\ now + d <= fetcher.nextPoll
    /\ now' = now + d
    /\ UNCHANGED <<rawArticles, analysisCache, initialLoadComplete,
                   initialLoadPending, waiters, fetcher, polling, requests,
                   lastMerge,
                   chats, lastCall, widget>>

(***************************************************************************)
(* The environment of the explored runs: what the feeds, the LLM and the   *)
(* clients may send.                                                       *)
(***************************************************************************)
SeqsUpTo(S, n) == UNION {[1..k -> S] : k \in 0..n}

BasicItems ==
    {[link |-> "u1", title |-> "t1", content |-> "c1", pubDate |-> 1]}

LLMError == [kind |-> "error"]
LLMJson(sentiment, score) ==
    [kind |-> "json", summary |-> "summary", sentiment |-> sentiment,
     sentiment_score |-> score, bias_level |-> Some(2),
     manipulative_score |-> Some(1), mood |-> "mood", bias |-> "bias"]
BasicReplies == {LLMError, LLMJson("positive", Some(8))}

RequestCategories == {"breaking", "sports", "constructor"}

\* No api.js handler is running in the slot.
IdleChat ==
    [pc |-> "idle", route |-> "", message |-> Null, category |-> "",
     file |-> Null, calls |-> <<>>, response |-> Null]

\* chat.js, lines 2-15: the page as loaded.  body is the list of messages
\* in chatBody and input the value of chatInput; recorders holds the state
\* of every MediaRecorder made, the last one being `mediaRecorder`; chunks
\* is the size of audioChunks in bytes; timer says whether the timeout held
\* by recordTimeout is pending and oldTimers counts the pending timeouts of
\* earlier recordings; asking counts the calls of getUserMedia awaited;
\* uploads are the sizes of the voice requests on their way to the server,
\* voice the slots of the handlers whose responses the page awaits and
\* posts the chat requests sent and not answered.  count, the data events
\* since audioChunks was emptied, bounds the runs.  sessionId (line 11) is
\* written at line 41 and read nowhere: it is left out.
IdleWidget ==
    [chatOpen |-> FALSE, body |-> <<>>, input |-> "", asking |-> 0,
     recorders |-> <<>>, isRecording |-> FALSE, chunks |-> 0, count |-> 0,
     timer |-> FALSE, oldTimers |-> 0, uploads |-> <<>>, voice |-> {},
     posts |-> <<>>]

EmptyAnalysisEntry ==
    [timestamp |-> 0, data |-> Null, isAnalyzing |-> FALSE,
     analysisStartTime |-> Null]

Init ==
    /\ rawArticles = [c \in Categories |->
                        [articles |-> <<>>, isLoading |-> FALSE, lastError |-> Null]]
    /\ analysisCache = [c \in Categories |-> EmptyAnalysisEntry]
    /\ initialLoadComplete = FALSE
    /\ initialLoadPending = TRUE
    /\ waiters = <<>>
    /\ now = 0
    /\ fetcher = IdleFetcher
    /\ polling = "off"
    /\ requests = [r \in Slots |-> IdleRequest]
    /\ lastMerge = Null
    /\ chats = [r \in Slots |-> IdleChat]
    /\ lastCall = Null
    /\ widget = IdleWidget

FeedTitle == Some("Top Stories")

\* What parseURL does on the attempts of one call: it rejects `fails`
\* times, then resolves with a feed of `items`.
FeedData(items) == Some([title |-> FeedTitle, items |-> items])

Outcomes(fails, items) ==
    [k \in 1..maxRetries |-> IF k <= fails THEN Null ELSE FeedData(items)]

\* Math.random() * 1000 is in [0, 1000).
JitterValues == {0, 999}
NoJitter == {0}

\* The time a feed takes to answer in the runs; every time up to the
\* parser's timeout is possible.
FeedLatencyMs == 1500
Latencies == {0, FeedLatencyMs}
OneLatency == {FeedLatencyMs}
SlowLatencies == {0, ParserTimeout}

\* The attempt in progress settles, for a feed that rejects `fails`
\* attempts in all: the feeds of LiveCats return items, nothing, or fail,
\* after one of the times of LatencySet; in the explored runs the feeds of
\* the other categories answer with no items as soon as they are asked.
FeedAnswers(ItemSet, FailCounts, LiveCats, JitterSet, LatencySet) ==
    /\ fetcher.pc = "fetch"
    /\ \E items \in SeqsUpTo(ItemSet, MaxItems), fails \in FailCounts,
          jitter \in JitterSet, latency \in LatencySet \cup {0} :
          /\ fails >= fetcher.attempts - 1
          /\ \/ CurCategory \in LiveCats /\ latency \in LatencySet
             \/ CurCategory \notin LiveCats /\ items = <<>> /\ fails = 0
                   /\ latency = 0
          /\ FetchSettles(Outcomes(fails, items)[fetcher.attempts], jitter,
                          latency)

FetcherStep(ItemSet, FailCounts, LiveCats, JitterSet, LatencySet, record) ==
    \/ Listen
    \/ PollInterval
    \/ FeedAnswers(ItemSet, FailCounts, LiveCats, JitterSet, LatencySet)
    \/ BackoffElapsed
    \/ FeedDelayElapsed(record)

RequestStep(Cats, Replies) ==
    \/ \E r \in Slots, c \in Cats :
          /\ \A q \in Slots : q < r => ~Free(q)
          /\ Receive(r, c)
    \/ InitialLoadTimeout
    \/ \E r \in Slots, reply \in Replies : AnnotatorReturns(r, reply)
    \/ \E r \in Slots, reply \in Replies, stored \in BOOLEAN :
          AnalysisFails(r, reply, stored)

Next ==
    \/ FetcherStep(BasicItems, {0, maxRetries}, {"breaking"}, NoJitter, OneLatency, FALSE)
    \/ RequestStep(RequestCategories, BasicReplies)
    \/ Tick(TickMs)

Spec == Init /\ [][Next]_vars

(***************************************************************************)
(* Fairness: timers fire and every collaborator call (a feed fetch, an LLM *)
(* call) returns or fails.                                                 *)
(***************************************************************************)
\* The awaited feed answers or fails.
FetchReturns ==
    \E outcome \in {Null, FeedData(<<>>)}, latency \in Latencies \cup SlowLatencies :
       FetchSettles(outcome, 0, latency)

Fairness ==
    /\ WF_vars(Listen)
    /\ WF_vars(InitialLoadTimeout)
    /\ WF_vars(FetchReturns)
    /\ WF_vars(BackoffElapsed)
    /\ WF_vars(FeedDelayElapsed(FALSE))
    /\ \A r \in Slots :
          WF_vars(AnnotatorReturns(r, LLMError)
                     \/ AnalysisFails(r, LLMError, FALSE))

\* The runs liveness is checked on: the first fetch cycle and the time up to
\* the second, one live category, an LLM that fails.
LiveNext ==
    \/ Listen
    \/ FeedAnswers(BasicItems, {0, maxRetries}, {"breaking"}, NoJitter, Latencies)
    \/ BackoffElapsed
    \/ FeedDelayElapsed(FALSE)
    \/ Tick(TickMs)
    \/ RequestStep({"breaking"}, {LLMError})

FairSpec == Init /\ [][LiveNext]_vars /\ Fairness

(***************************************************************************)
(* api.js: the router mounted at /api (line 591).  A handler's `calls` are *)
(* the collaborator calls it has made, each with the way it settled.       *)
(***************************************************************************)
ApiResponse(status, error, detail, answer, summary) ==
    [status |-> status, error |-> error, detail |-> detail,
     answer |-> answer, summary |-> summary,
     text |-> Null, whisperResp |-> Null, context |-> Null]

Resolved(text, context) ==
    [settled |-> "resolved", text |-> text, context |-> context]
Rejected(message) ==
    [settled |-> "rejected", text |-> message, context |-> <<>>]
\* An exception thrown in an event callback: the promise never settles.
Thrown(message) ==
    [settled |-> "thrown", text |-> message, context |-> <<>>]

CallTo(to, context) == [to |-> to, context |-> context, result |-> Null]

FreeChat(r) == chats[r].pc \in {"idle", "done"}

Respond(chat, resp) == [chat EXCEPT !.pc = "done", !.response = Some(resp)]

Settle(chat, reply) == [chat EXCEPT !.calls[Len(chat.calls)].result = Some(reply)]

\* getGroqAnswer, lines 673-686: the completion's text, or a rejection.
GroqReplies == {Resolved("text", <<>>), Rejected("groq unavailable")}

\* googleSearchNews, lines 622-670, on what the search API does.
NoKey == [kind |-> "nokey", parses |-> FALSE, hasResults |-> FALSE,
          isArray |-> FALSE, results |-> <<>>]
RequestError == [NoKey EXCEPT !.kind = "error"]
Body(parses, hasResults, isArray, results) ==
    [kind |-> "body", parses |-> parses, hasResults |-> hasResults,
     isArray |-> isArray, results |-> results]

Snippet(item) == [title |-> item.title, description |-> item.description]

googleSearchNews(upstream) ==
    IF upstream.kind = "nokey"
    THEN Rejected("RAPIDAPI_KEY not set in environment")
    ELSE IF upstream.kind = "error" THEN Rejected("request error")
    ELSE IF ~upstream.parses THEN Rejected("Failed to parse API response")
    ELSE IF ~upstream.hasResults THEN Resolved("", <<>>)
    ELSE IF ~upstream.isArray THEN Thrown("data.results.map is not a function")
    ELSE Resolved("", [i \in 1..Len(upstream.results) |->
                         Snippet(upstream.results[i])])

SearchItem == [title |-> "t1", description |-> "d1"]

Upstreams ==
    {RequestError,
     Body(FALSE, FALSE, FALSE, <<>>),
     Body(TRUE, FALSE, FALSE, <<>>),
     Body(TRUE, TRUE, FALSE, <<>>),
     Body(TRUE, TRUE, TRUE, <<>>),
     Body(TRUE, TRUE, TRUE, <<SearchItem>>)}

\* !message
Falsy(message) == message = Null \/ message = Some("")

Messages == {Null, Some(""), Some("q1"), Some("q2")}

ChatFailed(chat, reply) ==
    Respond(Settle(chat, reply),
            ApiResponse(500, Some("Failed to get answer"), Some(reply.text),
                        Null, Null))

\* POST /api/chat, lines 689-694: up to the await of the search.  key says
\* whether process.env.RAPIDAPI_KEY is set: without it googleSearchNews
\* throws before it sends a request (line 624) and the catch answers in the
\* turn of the arrival.
ChatArrival(message, key) ==
    LET chat == [IdleChat EXCEPT !.route = "chat", !.message = message]
        searching == [chat EXCEPT !.pc = "searching",
                                  !.calls = <<CallTo("search", <<>>)>>]
    IN  IF Falsy(message)
        THEN Respond(chat, ApiResponse(400, Some("No message provided"),
                                       Null, Null, Null))
        ELSE IF ~key
        THEN ChatFailed(searching, googleSearchNews(NoKey))
        ELSE searching

ChatReceive(r, message, key) ==
    /\ polling # "off"
    /\ ~Crashed
    /\ FreeChat(r)
    /\ chats' = [chats EXCEPT ![r] = ChatArrival(message, key)]
    /\ UNCHANGED <<rawArticles, analysisCache, initialLoadComplete,
                   initialLoadPending, waiters, now, fetcher, polling,
                   requests, lastMerge, lastCall, widget>>

\* Line 694: the request googleSearchNews has sent settles, or its callback
\* throws where nothing catches.
SearchSettles(r, upstream) ==
    /\ ~Crashed
    /\ chats[r].pc = "searching"
    /\ upstream.kind # "nokey"
    /\ LET reply == googleSearchNews(upstream)
           chat == Settle(chats[r], reply)
       IN  chats' = [chats EXCEPT ![r] =
              IF reply.settled = "resolved"
              THEN [chat EXCEPT !.pc = "answering",
                                !.calls = Append(@, CallTo("llm", reply.context))]
              ELSE IF reply.settled = "rejected"
              THEN ChatFailed(chats[r], reply)
              ELSE [chat EXCEPT !.pc = "uncaught"]]
    /\ UNCHANGED <<rawArticles, analysisCache, initialLoadComplete,
                   initialLoadPending, waiters, now, fetcher, polling,
                   requests, lastMerge, lastCall, widget>>

\* Lines 696-702: getGroqAnswer settles.
AnswerSettles(r, reply) ==
    /\ ~Crashed
    /\ chats[r].pc = "answering"
    /\ chats' = [chats EXCEPT ![r] =
          IF reply.settled = "resolved"
          THEN Respond(Settle(chats[r], reply),
                       ApiResponse(200, Null, Null, Some(reply.text), Null))
          ELSE ChatFailed(chats[r], reply)]
    /\ UNCHANGED <<rawArticles, analysisCache, initialLoadComplete,
                   initialLoadPending, waiters, now, fetcher, polling,
                   requests, lastMerge, lastCall, widget>>

ChatStep ==
    \/ \E r \in Slots, message \in Messages, key \in BOOLEAN :
          /\ \A q \in Slots : q < r => ~FreeChat(q)
          /\ ChatReceive(r, message, key)
    \/ \E r \in Slots, upstream \in Upstreams : SearchSettles(r, upstream)
    \/ \E r \in Slots, reply \in GroqReplies : AnswerSettles(r, reply)

ChatNext ==
    \/ Listen
    \/ ChatStep

ChatSpec == Init /\ [][ChatNext]_vars

\* POST /api/chat/test, lines 738-745: the template literals, as the parts
\* they concatenate.
mockContext(message) == <<"Mock context for: ", message>>
mockAnswer(message) ==
    <<"This is a mock answer to: '", message, "'. (Context: ",
      mockContext(message), ")">>

\* A test route that runs the chat handler.
TestArrivalSearching(message) ==
    [ChatArrival(message, TRUE) EXCEPT !.route = "test"]

TestArrival(message) ==
    LET chat == [IdleChat EXCEPT !.route = "test", !.message = message]
    IN  IF Falsy(message)
        THEN Respond(chat, ApiResponse(400, Some("No message provided"),
                                       Null, Null, Null))
        ELSE Respond(chat, [ApiResponse(200, Null, Null,
                                        Some(mockAnswer(message[1])), Null)
                              EXCEPT !.context = Some(mockContext(message[1]))])

TestReceive(r, message) ==
    /\ polling # "off"
    /\ ~Crashed
    /\ FreeChat(r)
    /\ chats' = [chats EXCEPT ![r] = TestArrival(message)]
    /\ UNCHANGED <<rawArticles, analysisCache, initialLoadComplete,
                   initialLoadPending, waiters, now, fetcher, polling,
                   requests, lastMerge, lastCall, widget>>

\* The test route beside the chat route: any slot that is free takes the
\* next request.
TestNext ==
    \/ Listen
    \/ \E r \in Slots, message \in Messages : TestReceive(r, message)
    \/ \E r \in Slots, key \in BOOLEAN : ChatReceive(r, Some("q1"), key)
    \/ \E r \in Slots, upstream \in {Body(TRUE, TRUE, FALSE, <<>>),
                                        Body(TRUE, TRUE, TRUE, <<SearchItem>>)} :
          SearchSettles(r, upstream)
    \/ \E r \in Slots, reply \in GroqReplies : AnswerSettles(r, reply)

TestSpec == Init /\ [][TestNext]_vars

\* POST /api/voice-to-text, lines 706-735.  multer (line 613) stores the
\* file of the field "audio" as req.file, whatever its size; a file in any
\* other field makes it fail, which Express answers 500 before the handler.
Upload(field, size) == Some([field |-> field, size |-> size])

ReqFile(upload) ==
    IF upload # Null /\ upload[1].field = "audio" THEN upload ELSE Null

\* groq.audio.transcriptions.create: a text, no text, or a rejection.
WhisperReplies ==
    {Resolved("hello", <<>>), Resolved("", <<>>), Rejected("whisper unavailable")}

\* A handler that transcribes whatever it is given, a missing file included.
VoiceArrivalUnchecked(upload) ==
    [IdleChat EXCEPT !.route = "voice", !.file = upload,
                     !.pc = "transcribing",
                     !.calls = <<CallTo("whisper", <<>>)>>]

\* Lines 706-722: up to the await of the transcription.
VoiceArrival(upload) ==
    LET chat == [IdleChat EXCEPT !.route = "voice", !.file = upload]
    IN  IF upload # Null /\ ReqFile(upload) = Null
        THEN Respond(chat, ApiResponse(500, Some("Unexpected field"),
                                       Null, Null, Null))
        ELSE IF ReqFile(upload) = Null
        THEN Respond(chat, ApiResponse(400, Some("No audio file uploaded"),
                                       Null, Null, Null))
        ELSE [chat EXCEPT !.pc = "transcribing",
                          !.calls = <<CallTo("whisper", <<>>)>>]

VoiceReceive(r, upload) ==
    /\ ~Crashed
    /\ polling # "off"
    /\ FreeChat(r)
    /\ chats' = [chats EXCEPT ![r] = VoiceArrival(upload)]
    /\ UNCHANGED <<rawArticles, analysisCache, initialLoadComplete,
                   initialLoadPending, waiters, now, fetcher, polling,
                   requests, lastMerge, lastCall, widget>>

\* Lines 724-734: the transcription settles.
VoiceSettles(r, reply) ==
    /\ ~Crashed
    /\ chats[r].pc = "transcribing"
    /\ LET chat == Settle(chats[r], reply)
       IN  chats' = [chats EXCEPT ![r] =
              IF reply.settled = "rejected"
              THEN Respond(chat, ApiResponse(500, Some("Failed to transcribe audio"),
                                             Some(reply.text), Null, Null))
              ELSE IF reply.text # ""
              THEN Respond(chat, [ApiResponse(200, Null, Null, Null, Null)
                                    EXCEPT !.text = Some(reply.text)])
              ELSE Respond(chat, [ApiResponse(200, Some("No transcription text returned"),
                                              Null, Null, Null)
                                    EXCEPT !.whisperResp = Some(reply)])]
    /\ UNCHANGED <<rawArticles, analysisCache, initialLoadComplete,
                   initialLoadPending, waiters, now, fetcher, polling,
                   requests, lastMerge, lastCall, widget>>

(***************************************************************************)
(* chat.js, lines 1-174: the chat widget.  The page and the server are     *)
(* two processes: a request the page sends is on its way until a turn of   *)
(* the server takes it, and the response is read in a later turn of the    *)
(* page.                                                                   *)
(***************************************************************************)
ChunkSizes == {0, 1, MaxAudioBytes}

Greeting == "Hi! I'm a chat bot. How can I help you?"
LoadingText == "..."
AnalyzingText == "Analyzing... Please wait while your audio is transcribed."
TooLongText == "Recording too long! Please keep voice input under 10 seconds."

\* Lines 46-63.
addMessage(body, text, sender) == Append(body, [sender |-> sender, text |-> text])
addBotMessage(body, text) == addMessage(body, text, "bot")

\* Lines 80-83, 90-93, 133-136 and 145-148: the last message of chatBody is
\* removed when it is a bot message with the text of the indicator (of the
\* texts in the runs, AnalyzingText alone starts with 'Analyzing').
removeIndicator(body, text) ==
    IF /\ body # <<>>
       /\ body[Len(body)].sender = "bot"
       /\ body[Len(body)].text = text
    THEN SubSeq(body, 1, Len(body) - 1)
    ELSE body

Without(s, i) == SubSeq(s, 1, i - 1) \o SubSeq(s, i + 1, Len(s))

\* String.prototype.trim on the texts of the runs.
trim(t) == IF t = " " THEN "" ELSE t

\* Lines 65-77: the submit listener up to its fetch, on the page w.
submit(w) ==
    LET userMsg == trim(w.input)
    IN  IF userMsg = "" THEN w
        ELSE [w EXCEPT !.body = addBotMessage(addMessage(@, userMsg, "user"),
                                              LoadingText),
                       !.input = "",
                       !.posts = Append(@, userMsg)]

\* mediaRecorder.stop(): the recorder ends asynchronously.
stop(recorders) == [recorders EXCEPT ![Len(recorders)] = "stopping"]

\* The page changes and nothing else does.
PageTurn(w) ==
    /\ widget' = w
    /\ UNCHANGED <<rawArticles, analysisCache, initialLoadComplete,
                   initialLoadPending, waiters, now, fetcher, polling,
                   requests, lastMerge, chats, lastCall>>

\* Lines 17-23 and 40-44, from the toggle button (lines 30-36) or Alt+C
\* (lines 170-174): the chat is closed, or opened on a new session.
toggleChat ==
    PageTurn(IF widget.chatOpen
             THEN [widget EXCEPT !.chatOpen = FALSE]
             ELSE [widget EXCEPT !.chatOpen = TRUE,
                                 !.body = addBotMessage(<<>>, Greeting)])

\* Lines 25-28, from the close button (line 38).
closeChat == PageTurn([widget EXCEPT !.chatOpen = FALSE])

\* The user types `text` and submits the form: lines 65-77.
Submit(text) == PageTurn(submit([widget EXCEPT !.input = text]))

\* The chat request i is answered, lines 78-95: `reply` is the JSON body,
\* with or without an answer, or Null when the fetch or resp.json() fails.
\* The page posts to /.netlify/functions/api/chat, which the local server
\* does not route (its 404 has no JSON body); where the Netlify function
\* runs it answers as POST /api/chat does.
ChatReplyArrives(i, reply) ==
    /\ i \in 1..Len(widget.posts)
    /\ PageTurn([widget EXCEPT
          !.posts = Without(@, i),
          !.body = addBotMessage(removeIndicator(@, LoadingText),
                      IF reply = Null THEN "Sorry, something went wrong."
                      ELSE IF reply[1].answer # Null /\ reply[1].answer # Some("")
                      THEN reply[1].answer[1]
                      ELSE "Sorry, I could not find an answer.")])

\* Lines 98-110: a click on the record button stops the recording, or asks
\* for the microphone and ends at the await of line 110.
ClickRecord ==
    PageTurn(IF widget.isRecording
             THEN [widget EXCEPT !.recorders = stop(@),
                                 !.isRecording = FALSE,
                                 !.timer = FALSE]
             ELSE [widget EXCEPT !.asking = @ + 1])

\* Lines 110-162: getUserMedia resolves.  A new recorder replaces the one
\* held, audioChunks is emptied and a timeout is set, whether or not a
\* recording is running.
StartRecording ==
    /\ widget.asking > 0
    /\ PageTurn([widget EXCEPT
          !.asking = @ - 1,
          !.recorders = Append(@, "recording"),
          !.chunks = 0,
          !.count = 0,
          !.isRecording = TRUE,
          !.oldTimers = IF widget.timer THEN @ + 1 ELSE @,
          !.timer = TRUE])

\* Lines 163-165: getUserMedia rejects; the page alerts.
PermissionDenied ==
    /\ widget.asking > 0
    /\ PageTurn([widget EXCEPT !.asking = @ - 1])

\* Lines 113-115: ondataavailable of a recorder that runs or is ending.
DataAvailable(size) ==
    /\ \E k \in 1..Len(widget.recorders) : widget.recorders[k] # "inactive"
    /\ PageTurn([widget EXCEPT !.count = @ + 1,
                               !.chunks = IF size > 0 THEN @ + size ELSE @])

\* Lines 156-162: a timeout fires, the oldest pending one first.
RecordTimeout ==
    /\ widget.timer \/ widget.oldTimers > 0
    /\ LET fired == IF widget.oldTimers > 0
                    THEN [widget EXCEPT !.oldTimers = @ - 1]
                    ELSE [widget EXCEPT !.timer = FALSE]
       IN  PageTurn(IF widget.isRecording
                    THEN [fired EXCEPT !.recorders = stop(@),
                                       !.isRecording = FALSE]
                    ELSE fired)

\* A page that uploads every recording.
TooLargeNever(size) == FALSE

\* Line 119.
TooLarge(size) == size > MaxAudioBytes

\* Lines 116-130: onstop of recorder k, up to the fetch.  The blob is made
\* of the audioChunks of that time.
RecorderStops(k) ==
    /\ k \in 1..Len(widget.recorders)
    /\ widget.recorders[k] = "stopping"
    /\ PageTurn(IF TooLarge(widget.chunks)
                THEN [widget EXCEPT !.recorders[k] = "inactive",
                                    !.body = addBotMessage(@, TooLongText)]
                ELSE [widget EXCEPT !.recorders[k] = "inactive",
                                    !.body = addBotMessage(@, AnalyzingText),
                                    !.uploads = Append(@, widget.chunks)])

\* A slot no handler runs in and no page awaits.
FreeForPage(r) == FreeChat(r) /\ r \notin widget.voice

\* The server takes the page's upload i: POST /api/voice-to-text in slot r.
UploadArrives(r, i) ==
    /\ ~Crashed
    /\ polling # "off"
    /\ FreeForPage(r)
    /\ i \in 1..Len(widget.uploads)
    /\ chats' = [chats EXCEPT ![r] =
                    VoiceArrival(Upload("audio", widget.uploads[i]))]
    /\ widget' = [widget EXCEPT !.uploads = Without(@, i), !.voice = @ \cup {r}]
    /\ UNCHANGED <<rawArticles, analysisCache, initialLoadComplete,
                   initialLoadPending, waiters, now, fetcher, polling,
                   requests, lastMerge, lastCall>>

\* Lines 131-143: the response of the handler in slot r is read; a
\* transcribed text is put in the input and submitted (lines 65-77).
VoiceReplyArrives(r) ==
    /\ r \in widget.voice
    /\ chats[r].pc = "done"
    /\ LET data == chats[r].response[1]
           read == [widget EXCEPT !.voice = @ \ {r},
                                  !.body = removeIndicator(@, AnalyzingText)]
       IN  PageTurn(IF data.text # Null /\ data.text # Some("")
                    THEN submit([read EXCEPT !.input = data.text[1]])
                    ELSE [read EXCEPT !.body =
                            addBotMessage(@, "Sorry, could not transcribe audio.")])

\* Lines 144-150: the fetch of line 127 rejects, for the upload i that does
\* not reach a server or for the response awaited from slot r when the
\* server process has ended.
VoiceReplyFails(r, i) ==
    /\ IF r \in Slots
       THEN r \in widget.voice /\ Crashed
       ELSE i \in 1..Len(widget.uploads)
    /\ PageTurn([widget EXCEPT
          !.voice = @ \ {r},
          !.uploads = IF r \in Slots THEN @ ELSE Without(@, i),
          !.body = addBotMessage(removeIndicator(@, AnalyzingText),
                      "Sorry, something went wrong with voice input.")])

\* Uploads sent to the server by other clients than the page.
Uploads ==
    {Null, Upload("other", 1), Upload("audio", 1),
     Upload("audio", MaxAudioBytes + 1)}

\* What the user types, and the bodies the chat function answers with.
TypedTexts == {"q1"}
ChatBodies == {Null, Some([answer |-> Some("text")]), Some([answer |-> Null])}

PageSlot == 1
OtherSlot == 2
NoSlot == 0

\* The messages chatBody holds and the requests under way in the runs.
Room(n) == Len(widget.body) + n <= MaxBody
Pending == Len(widget.uploads) + Len(widget.posts) + Cardinality(widget.voice)

\* The voice route taken alone: uploads of any client, in any slot.
VoiceNext ==
    \/ Listen
    \/ \E r \in Slots, upload \in Uploads :
          /\ \A q \in Slots : q < r => ~FreeChat(q)
          /\ VoiceReceive(r, upload)
    \/ \E r \in Slots, reply \in WhisperReplies : VoiceSettles(r, reply)

VoiceSpec == Init /\ [][VoiceNext]_vars

\* The page beside the server: the page's uploads are handled in PageSlot;
\* another client sends a large upload and a chat request, handled in
\* OtherSlot, whose search may end the server process.
PageNext ==
    \/ Listen
    \/ toggleChat
    \/ closeChat
    \/ \E text \in TypedTexts :
          Room(2) /\ Pending < MaxPending /\ Submit(text)
    \/ \E i \in 1..MaxPending, reply \in ChatBodies :
          Room(1) /\ ChatReplyArrives(i, reply)
    \/ /\ widget.asking + Len(widget.recorders) < MaxRecorders
          \/ widget.isRecording
       /\ ClickRecord
    \/ StartRecording
    \/ PermissionDenied
    \/ \E size \in ChunkSizes : widget.count < MaxChunks /\ DataAvailable(size)
    \/ RecordTimeout
    \/ \E k \in 1..MaxRecorders :
          Room(1) /\ Pending < MaxPending /\ RecorderStops(k)
    \/ \E i \in 1..MaxPending : UploadArrives(PageSlot, i)
    \/ Room(2) /\ VoiceReplyArrives(PageSlot)
    \/ \E i \in 1..MaxPending : Room(1) /\ VoiceReplyFails(NoSlot, i)
    \/ Room(1) /\ VoiceReplyFails(PageSlot, 0)
    \/ VoiceReceive(OtherSlot, Upload("audio", MaxAudioBytes + 1))
    \/ \E reply \in WhisperReplies \cup {Resolved(" ", <<>>)} :
          VoiceSettles(PageSlot, reply)
    \/ ChatReceive(OtherSlot, Some("q1"), TRUE)
    \/ SearchSettles(OtherSlot, Body(TRUE, TRUE, FALSE, <<>>))

PageSpec == Init /\ [][PageNext]_vars

\* GET /api/llm-news-summary/:category, lines 749-778.
toLowerCase(c) == IF c = "Breaking" THEN "breaking" ELSE c

SummaryCount == 5

(***************************************************************************)
(* The serverless backend: the news function (chat.js, lines 176-441) and  *)
(* the chat function (part_000, lines 1-117).  The news function keeps no  *)
(* state: each call fetches the category's feeds, `feeds` being what       *)
(* parseURL does for each of them, and annotates with `replies`.           *)
(***************************************************************************)
ServerlessCount == 5
ServerlessFeedDelayMs == 2000
ServerlessAnalysisDelayMs == 1000

ServerlessResponse(statusCode, error, available_categories, data) ==
    [statusCode |-> statusCode, error |-> error,
     available_categories |-> available_categories, data |-> data]

RECURSIVE Sum(_)
Sum(s) == IF s = <<>> THEN 0 ELSE Head(s) + Sum(Tail(s))

RECURSIVE ServerlessArticles(_, _, _, _, _, _)
\* Lines 349-369, from the i-th feed on, whose fetch begins at time t: the
\* articles and the time the loop ends.  latencies[i][k] is the time the
\* k-th parseURL of feed i takes.  A feed that fails or whose items cannot
\* be mapped adds none; the items are mapped, and new Date() of line 361 is
\* read, when fetchWithRetry returns, after its attempts and backoffs, and
\* delay(2000) follows every feed.
ServerlessArticles(categoryFeeds, feeds, jitters, latencies, i, t) ==
    IF i > Len(categoryFeeds) THEN [articles |-> <<>>, clock |-> t]
    ELSE LET got == fetchWithRetry(feeds[i], jitters[i])
             settled == t + Sum(got.delays)
                          + Sum(SubSeq(latencies[i], 1, got.attempts))
             rest == ServerlessArticles(categoryFeeds, feeds, jitters,
                                        latencies, i + 1,
                                        settled + ServerlessFeedDelayMs)
         IN  [rest EXCEPT !.articles =
                (IF got.ok /\ ~MapThrows(got.feedData.items)
                 THEN NewArticles(got.feedData.items, settled, categoryFeeds[i],
                                  got.feedData.title)
                 ELSE <<>>) \o @]

\* exports.handler, lines 310-441, called at time t: the i-th annotator
\* call takes llmLatencies[i] and delay(1000) follows the annotation of
\* every article (line 395); new Date() of line 427 is read at the end.
handler(httpMethod, c, feeds, jitters, latencies, replies, llmLatencies, t) ==
    LET category == toLowerCase(c)
        categoryFeeds == feedsByCategory(category)
        fetched == ServerlessArticles(categoryFeeds, feeds, jitters, latencies,
                                      1, t)
        recentArticles ==
            slice(sortByTimestamp(fetched.articles), ServerlessCount)
        analyzedArticles ==
            [i \in 1..Len(recentArticles) |->
                analyzeSentiment(recentArticles[i], replies[i])]
        positive == SortByScore(FilterPositive(analyzedArticles), <<>>, 1)
        negative == SortByScore(FilterNegative(analyzedArticles), <<>>, -1)
        neutral == FilterNeutral(analyzedArticles)
        ended == fetched.clock
                   + Sum(SubSeq(llmLatencies, 1, Len(recentArticles)))
                   + ServerlessAnalysisDelayMs * Len(recentArticles)
    IN  IF httpMethod # "GET"
        THEN ServerlessResponse(405, Some("Method not allowed"), Null, Null)
        ELSE IF category \notin Categories
        THEN ServerlessResponse(400, Some("Invalid category"),
                                Some(CategoryOrder), Null)
        ELSE IF Len(categoryFeeds) = 0
        THEN ServerlessResponse(404, Some("No feeds available for this category"),
                                Null, Null)
        ELSE IF Len(recentArticles) = 0
        THEN ServerlessResponse(404, Some("No articles available"), Null, Null)
        ELSE ServerlessResponse(200, Null, Null,
                Some([category |-> category,
                      summary |-> [total_articles |-> Len(recentArticles),
                                   analyzed_articles |-> Len(analyzedArticles),
                                   positive_count |-> Len(positive),
                                   negative_count |-> Len(negative),
                                   neutral_count |-> Len(neutral)],
                      articles |-> [positive |-> positive,
                                    negative |-> negative,
                                    neutral |-> neutral],
                      last_updated |-> ended]))

\* The routes each backend serves.
LocalRoutes ==
    {"GET articles/:category", "GET articles", "POST chat",
     "POST voice-to-text", "POST chat/test", "GET llm-news-summary/:category"}
ServerlessRoutes == {"GET articles/:category", "POST chat", "POST chat/test"}

\* The whole retained list as the context.
SummaryContextAll(articles) ==
    [i \in 1..Len(articles) |->
        [n |-> i, title |-> articles[i].title, content |-> articles[i].content]]

\* Lines 769-771; the contents of the explored articles are shorter than
\* the 200 characters kept of each.
SummaryContext(articles) ==
    [i \in 1..Len(slice(articles, SummaryCount)) |->
        [n |-> i, title |-> articles[i].title, content |-> articles[i].content]]

SummaryCategories ==
    {"breaking", "Breaking", "technology", "sports", "constructor", "__proto__"}

SummaryReceive(r, c) ==
    /\ ~Crashed
    /\ polling # "off"
    /\ FreeChat(r)
    /\ LET category == toLowerCase(c)
           articles == RawOf(rawArticles, category).articles
           chat == [IdleChat EXCEPT !.route = "summary", !.category = c]
       IN  chats' = [chats EXCEPT ![r] =
              IF Len(articles) = 0
              THEN Respond(chat, ApiResponse(404,
                              Some("No articles found for this category."),
                              Null, Null, Null))
              ELSE [chat EXCEPT !.pc = "summarizing",
                                !.calls = <<CallTo("llm", SummaryContext(articles))>>]]
    /\ UNCHANGED <<rawArticles, analysisCache, initialLoadComplete,
                   initialLoadPending, waiters, now, fetcher, polling,
                   requests, lastMerge, lastCall, widget>>

\* Lines 773-777: getGroqAnswer settles.
SummarySettles(r, reply) ==
    /\ ~Crashed
    /\ chats[r].pc = "summarizing"
    /\ chats' = [chats EXCEPT ![r] =
          IF reply.settled = "resolved"
          THEN Respond(Settle(chats[r], reply),
                       ApiResponse(200, Null, Null, Null, Some(reply.text)))
          ELSE Respond(Settle(chats[r], reply),
                       ApiResponse(500, Some("Failed to get LLM news summary"),
                                   Some(reply.text), Null, Null))]
    /\ UNCHANGED <<rawArticles, analysisCache, initialLoadComplete,
                   initialLoadPending, waiters, now, fetcher, polling,
                   requests, lastMerge, lastCall, widget>>

\* The server with both article routes: one live category, an LLM that fails.
IndexNext ==
    \/ Listen
    \/ PollInterval
    \/ FeedAnswers(BasicItems, {0, maxRetries}, {"breaking"}, NoJitter, OneLatency)
    \/ BackoffElapsed
    \/ FeedDelayElapsed(FALSE)
    \/ Tick(TickMs)
    \/ RequestStep({"breaking"}, {LLMError})
    \/ \E r \in Slots :
          /\ \A q \in Slots : q < r => ~Free(q)
          /\ GetArticles(r)

IndexSpec == Init /\ [][IndexNext]_vars

(***************************************************************************)
(* The fetcher alone, with feeds that repeat links under other titles and  *)
(* dates, omit dates or send unparseable ones, and fail any number of      *)
(* attempts; lastMerge is recorded.                                        *)
(***************************************************************************)
FetchItems ==
    {[link |-> "u1", title |-> "t1", content |-> "c1", pubDate |-> 1],
     [link |-> "u1", title |-> "t2", content |-> "c1", pubDate |-> 1],
     [link |-> "u1", title |-> "t1", content |-> "c1", pubDate |-> 2],
     [link |-> "u2", title |-> "t1", content |-> "",   pubDate |-> 1],
     [link |-> "u2", title |-> "t2", content |-> "c1", pubDate |-> NoDate],
     [link |-> "u2", title |-> "t2", content |-> "c1", pubDate |-> BadDate]}

FetchNext ==
    \/ FetcherStep(FetchItems, 0..maxRetries, {"breaking"}, NoJitter, OneLatency, TRUE)
    \/ InitialLoadTimeout
    \/ Tick(TickMs)

FetchSpec == Init /\ [][FetchNext]_vars

(***************************************************************************)
(* The merge of lines 288-308 taken alone.  The run starts when the first  *)
(* fetch cycle has ended, having fetched the first k of MaxUrls articles   *)
(* whose timestamps repeat and are not in url order; then a later cycle's  *)
(* merge is given `fetched`, any short sequence of such articles.          *)
(***************************************************************************)
UrlNames ==
    <<"u1", "u2", "u3", "u4", "u5", "u6", "u7", "u8", "u9", "u10", "u11",
      "u12", "u13", "u14">>

MergeArticle(i, ts) ==
    NewArticle([link |-> UrlNames[i], title |-> "t1", content |-> "c1",
                pubDate |-> ts],
               0, RSS_FEEDS[1], FeedTitle)

MergeUniverse ==
    {MergeArticle(i, ((i * 3) % 7) + 1) : i \in 1..MaxUrls}
       \cup {MergeArticle(1, 9)}

\* A cycle awaits delay(2000) after each feed (line 285): the first cycle
\* ends no sooner than this after process start, when the initial-load
\* timer has fired.
FirstCycleMs == Len(RSS_FEEDS) * FeedDelayMs

\* The time a first cycle ends whose feeds of "breaking" answer after
\* `latency` each and the others as soon as they are asked.
FirstCycleEnd(latency) ==
    FirstCycleMs + Len(feedsByCategory("breaking")) * latency

\* The state at the end of a first fetch cycle that fetched `articles` for
\* "breaking" and nothing for the other categories, and ended at time t.
AfterFirstCycle(articles, t) ==
    /\ rawArticles =
          [c \in Categories |->
             [articles |-> IF c = "breaking"
                           THEN MergeArticles(<<>>, articles) ELSE <<>>,
              isLoading |-> FALSE, lastError |-> Null]]
    /\ analysisCache = [c \in Categories |-> EmptyAnalysisEntry]
    /\ initialLoadComplete = TRUE
    /\ initialLoadPending = FALSE
    /\ waiters = <<>>
    /\ now = t
    /\ fetcher = [IdleFetcher EXCEPT !.cycles = 1,
                                     !.nextPoll = t + PollIntervalMs]
    /\ polling = "interval"
    /\ requests = [r \in Slots |-> IdleRequest]
    /\ lastMerge = Null
    /\ chats = [r \in Slots |-> IdleChat]
    /\ lastCall = Null
    /\ widget = IdleWidget

MergeBase == [i \in 1..MaxUrls |-> MergeArticle(i, ((i * 3) % 7) + 1)]

MergeInit ==
    \E k \in 0..MaxUrls, latency \in Latencies :
       AfterFirstCycle(SubSeq(MergeBase, 1, k), FirstCycleEnd(latency))

MergeStep(fetched) ==
    /\ lastMerge = Null
    /\ rawArticles' = EndCategory(rawArticles, "breaking", TRUE, fetched)
    /\ lastMerge' = Some([category |-> "breaking",
                          existing |-> rawArticles["breaking"].articles,
                          fetched |-> fetched, failed |-> 0])
    /\ UNCHANGED <<analysisCache, initialLoadComplete, initialLoadPending,
                   waiters, now, fetcher, polling, requests, chats, lastCall, widget>>

MergeNext == \E fetched \in SeqsUpTo(MergeUniverse, MaxFetched) : MergeStep(fetched)

MergeSpec == MergeInit /\ [][MergeNext]_vars

\* The summary route, one request at a time, beside the fetcher and one
\* article request at a time,
\* from the end of a first cycle that retained the first k of MaxUrls
\* articles.
SummaryInit ==
    \E k \in 0..MaxUrls, latency \in Latencies :
       AfterFirstCycle(SubSeq(MergeBase, 1, k), FirstCycleEnd(latency))

SummaryNext ==
    \/ PollInterval
    \/ FeedAnswers(BasicItems, {0, maxRetries}, {"breaking"}, NoJitter, Latencies)
    \/ BackoffElapsed
    \/ FeedDelayElapsed(FALSE)
    \/ Receive(1, "breaking")
    \/ AnalysisFails(1, LLMError, FALSE)
    \/ \E c \in SummaryCategories : SummaryReceive(1, c)
    \/ \E reply \in GroqReplies : SummarySettles(1, reply)

SummarySpec == SummaryInit /\ [][SummaryNext]_vars

(***************************************************************************)
(* The analysis run: requests for "breaking" from the end of a first cycle *)
(* that retained the first k of MaxRun articles, while the second cycle    *)
(* fetches an article with a new link or nothing.                          *)
(***************************************************************************)
RunItems ==
    {[link |-> "u14", title |-> "t1", content |-> "c1", pubDate |-> 9]}

RunInit ==
    \E k \in 0..MaxRun, latency \in Latencies :
       AfterFirstCycle(SubSeq(MergeBase, 1, k), FirstCycleEnd(latency))

RunNext ==
    \/ /\ fetcher.cycles < 2
       /\ PollInterval
    \/ FeedAnswers(RunItems, {0}, {"breaking"}, NoJitter, OneLatency)
    \/ FeedDelayElapsed(FALSE)
    \/ \E r \in Slots :
          /\ \A q \in Slots : q < r => ~Free(q)
          /\ Receive(r, "breaking")
    \/ \E r \in Slots, reply \in BasicReplies : AnnotatorReturns(r, reply)
    \/ \E r \in Slots, reply \in BasicReplies, stored \in BOOLEAN :
          AnalysisFails(r, reply, stored)
    \/ Tick(TickMs)

RunSpec == RunInit /\ [][RunNext]_vars

(***************************************************************************)
(* Every route of the server beside the fetcher: one request at a time to  *)
(* the routes of index.js (slot RouteSlot of requests) and one at a time   *)
(* to those of api.js (slot RouteSlot of chats), from the end of a first   *)
(* cycle, while the second cycle fetches, returns nothing, or fails.       *)
(***************************************************************************)
RouteSlot == 1

RoutesInit ==
    \E k \in 0..MaxItems, latency \in Latencies :
       AfterFirstCycle(SubSeq(MergeBase, 1, k), FirstCycleEnd(latency))

RoutesNext ==
    \/ /\ fetcher.cycles < 2
       /\ PollInterval
    \/ FeedAnswers(RunItems, {0, maxRetries}, {"breaking"}, NoJitter, OneLatency)
    \/ BackoffElapsed
    \/ FeedDelayElapsed(FALSE)
    \/ \E c \in {"breaking", "technology"} : Receive(RouteSlot, c)
    \/ \E reply \in BasicReplies : AnnotatorReturns(RouteSlot, reply)
    \/ \E stored \in BOOLEAN : AnalysisFails(RouteSlot, LLMError, stored)
    \/ GetArticles(RouteSlot)
    \/ \E c \in {"breaking", "technology"} : SummaryReceive(RouteSlot, c)
    \/ \E reply \in GroqReplies : SummarySettles(RouteSlot, reply)
    \/ \E upload \in Uploads : VoiceReceive(RouteSlot, upload)
    \/ \E reply \in WhisperReplies : VoiceSettles(RouteSlot, reply)
    \/ \E message \in {Null, Some("q1")}, key \in BOOLEAN :
          ChatReceive(RouteSlot, message, key)
    \/ \E upstream \in {RequestError, Body(TRUE, TRUE, TRUE, <<SearchItem>>)} :
          SearchSettles(RouteSlot, upstream)
    \/ \E reply \in GroqReplies : AnswerSettles(RouteSlot, reply)

RoutesSpec == RoutesInit /\ [][RoutesNext]_vars

(***************************************************************************)
(* Later fetch cycles taken alone, from the end of a first cycle that      *)
(* retained the first k of MaxUrls articles: each feed of "breaking"       *)
(* returns articles with new links or with a retained link, nothing, or    *)
(* exhausts its retries.                                                   *)
(***************************************************************************)
CycleItems ==
    {[link |-> "u1",  title |-> "t1", content |-> "c1", pubDate |-> 9],
     [link |-> "u13", title |-> "t1", content |-> "c1", pubDate |-> 5],
     [link |-> "u14", title |-> "t1", content |-> "c1", pubDate |-> 9]}

CyclesInit ==
    \E k \in 0..MaxUrls, latency \in Latencies :
       AfterFirstCycle(SubSeq(MergeBase, 1, k), FirstCycleEnd(latency))

CyclesNext ==
    \/ PollInterval
    \/ FeedAnswers(CycleItems, {0, maxRetries}, {"breaking"}, JitterValues, SlowLatencies)
    \/ BackoffElapsed
    \/ FeedDelayElapsed(FALSE)

CyclesSpec == CyclesInit /\ [][CyclesNext]_vars

(***************************************************************************)
(* Polling for the lifetime of the process: the first cycle and the later  *)
(* ones, with feeds of "breaking" that return an item or nothing and feeds *)
(* of every category that may exhaust their retries, beside article        *)
(* requests whose analysis fails and chat requests whose search fails or   *)
(* returns a body whose `results` is no array.  Timers fire and every      *)
(* fetch returns or fails.                                                 *)
(***************************************************************************)
PollingNext ==
    \/ Listen
    \/ PollInterval
    \/ FeedAnswers(BasicItems, {0}, {"breaking"}, NoJitter, OneLatency)
    \/ FeedAnswers({}, {maxRetries}, Categories, NoJitter, {0})
    \/ BackoffElapsed
    \/ FeedDelayElapsed(FALSE)
    \/ InitialLoadTimeout
    \/ /\ initialLoadComplete
       /\ Receive(RouteSlot, "breaking")
    \/ AnalysisFails(RouteSlot, LLMError, FALSE)
    \/ ChatReceive(RouteSlot, Some("q1"), TRUE)
    \/ \E upstream \in {RequestError, Body(TRUE, TRUE, FALSE, <<>>)} :
          SearchSettles(RouteSlot, upstream)

PollingFairness ==
    /\ WF_vars(Listen)
    /\ WF_vars(PollInterval)
    /\ WF_vars(InitialLoadTimeout)
    /\ WF_vars(FetchReturns)
    /\ WF_vars(BackoffElapsed)
    /\ WF_vars(FeedDelayElapsed(FALSE))

PollingSpec == Init /\ [][PollingNext]_vars /\ PollingFairness

(***************************************************************************)
(* The fetch cycles from process start, taken alone: the feeds of          *)
(* "breaking" and "technology" return an item, nothing, or exhaust their   *)
(* retries.  Timers fire and every fetch returns or fails.                 *)
(***************************************************************************)
LoadingNext ==
    \/ Listen
    \/ PollInterval
    \/ FeedAnswers(BasicItems, {0, maxRetries}, {"breaking", "technology"}, NoJitter,
                  SlowLatencies)
    \/ BackoffElapsed
    \/ FeedDelayElapsed(FALSE)
    \/ InitialLoadTimeout

LoadingSpec == Init /\ [][LoadingNext]_vars /\ PollingFairness

(***************************************************************************)
(* fetchWithRetry taken alone: one call, for every pattern of failing and  *)
(* succeeding attempts and every choice of jitters.                        *)
(***************************************************************************)
RetryFeedData == [title |-> FeedTitle, items |-> <<>>]
RetryOutcomes == [1..maxRetries -> {Null, Some(RetryFeedData)}]
RetryJitterValues == {0, 500, 999}
RetryJitters == [1..maxRetries -> RetryJitterValues]

CallFetchWithRetry(outcomes, jitters) ==
    /\ lastCall' = Some([op |-> "fetchWithRetry",
                         outcomes |-> outcomes, jitters |-> jitters,
                         result |-> fetchWithRetry(outcomes, jitters)])
    /\ UNCHANGED <<rawArticles, analysisCache, initialLoadComplete,
                   initialLoadPending, waiters, now, fetcher, polling,
                   requests, lastMerge, chats, widget>>

RetryNext ==
    \E outcomes \in RetryOutcomes, jitters \in RetryJitters :
       CallFetchWithRetry(outcomes, jitters)

RetrySpec == Init /\ [][RetryNext]_vars

(***************************************************************************)
(* analyzeSentiment taken alone: one call, for articles of two feeds (one  *)
(* without a title) and every kind of LLM reply: the call rejects, the     *)
(* content is not JSON, it is the JSON null, or it is a JSON object whose  *)
(* sentiment and score may be outside the schema or missing.               *)
(***************************************************************************)
AnnotateItems ==
    {[link |-> "u1", title |-> "t1", content |-> "c1", pubDate |-> 1],
     [link |-> "u2", title |-> "t2", content |-> "", pubDate |-> 2]}

AnnotateArticles ==
    {NewArticle(item, 0, RSS_FEEDS[1], FeedTitle) : item \in AnnotateItems}
       \cup {NewArticle(item, 0, RSS_FEEDS[6], Null) : item \in AnnotateItems}

LLMText == [kind |-> "text"]
LLMJsonNull == [kind |-> "null"]
AnnotateSentiments == {"positive", "negative", "neutral", "mixed"}
AnnotateScores ==
    {Null, Some(-15), Some(-8), Some(0), Some(8), Some(15),
     JsonNull, NumericString(8), OtherString}

AnnotateReplies ==
    {LLMError, LLMText, LLMJsonNull}
       \cup {LLMJson(sentiment, score) :
                sentiment \in AnnotateSentiments, score \in AnnotateScores}

CallAnalyzeSentiment(article, reply) ==
    /\ lastCall' = Some([op |-> "analyzeSentiment",
                         article |-> article, reply |-> reply,
                         result |-> analyzeSentiment(article, reply)])
    /\ UNCHANGED <<rawArticles, analysisCache, initialLoadComplete,
                   initialLoadPending, waiters, now, fetcher, polling,
                   requests, lastMerge, chats, widget>>

AnnotateNext ==
    \E article \in AnnotateArticles, reply \in AnnotateReplies :
       CallAnalyzeSentiment(article, reply)

AnnotateSpec == Init /\ [][AnnotateNext]_vars

(***************************************************************************)
(* The partition of analyzeArticles (lines 409-431) taken alone: one call  *)
(* per run, over the annotations of up to MaxAnalyzed articles whose       *)
(* scores are at, next to and far from the thresholds, or missing, or of   *)
(* up to MaxMixed articles whose scores are numbers, strings, null, true   *)
(* or missing.                                                             *)
(***************************************************************************)
PartitionScores ==
    {Null, Some(-8), Some(-4), Some(-3), Some(3), Some(4), Some(8)}

\* Scores that are no numbers, beside numbers they compare with.
MixedScores ==
    {Null, JsonNull, JsonBool(TRUE), OtherString,
     NumericString(8), NumericString(-8), NumericString(0),
     Some(-8), Some(5), Some(9)}

RECURSIVE Annotated(_, _)
\* The annotations of articles 1..Len(scores), article i scored scores[i].
Annotated(scores, i) ==
    IF i > Len(scores) THEN <<>>
    ELSE <<analyzeSentiment(MergeArticle(i, i), LLMJson("neutral", scores[i]))>>
         \o Annotated(scores, i + 1)

CallPartition(scores) ==
    /\ lastCall = Null
    /\ LET analyzed == Annotated(scores, 1)
       IN  lastCall' = Some([op |-> "partition", analyzed |-> analyzed,
                             result |-> Partition(analyzed)])
    /\ UNCHANGED <<rawArticles, analysisCache, initialLoadComplete,
                   initialLoadPending, waiters, now, fetcher, polling,
                   requests, lastMerge, chats, widget>>

PartitionNext ==
    /\ lastCall = Null
    /\ \E scores \in SeqsUpTo(PartitionScores, MaxAnalyzed)
                        \cup SeqsUpTo(MixedScores, MaxMixed) :
          CallPartition(scores)

PartitionSpec == Init /\ [][PartitionNext]_vars

(***************************************************************************)
(* Properties of GET /api/articles/:category.                              *)
(***************************************************************************)
\* The step in which the handler in slot r runs its checks: it arrives with
\* the initial load complete, or it resumes from initialLoadPromise.
Decided(r) ==
    /\ requests[r].pc \in {"idle", "done", "waiting"}
    /\ requests'[r] # requests[r]
    /\ requests'[r].pc \in {"done", "annotating"}

\* The step in which a request arrives in slot r.
Arrives(r) ==
    /\ Free(r)
    /\ requests'[r] # requests[r]

ResponseOf(req) == req.response[1]
Responded(r) == requests[r].pc = "done"

\* The request passes the loading, error and article checks of lines 456-482.
ReachesAnalysisStep(c) ==
    /\ ~rawArticles[c].isLoading
    /\ rawArticles[c].lastError = Null
    /\ rawArticles[c].articles # <<>>

\* C1: a request for a known category that reaches the analysis step while
\* isAnalyzing is true and no fresh cached analysis exists is answered 202
\* 'analyzing'; it starts no annotator run and leaves the cache entry alone.
C1_AnalyzingIsNotRestarted ==
    [][\A r \in Slots :
         LET c == requests'[r].category IN
         (/\ Decided(r)
          /\ c \in Categories
          /\ ReachesAnalysisStep(c)
          /\ analysisCache[c].isAnalyzing
          /\ ~(analysisCache[c].data # Null
               /\ now' - analysisCache[c].timestamp < CACHE_DURATION))
         => /\ requests'[r].pc = "done"
            /\ ResponseOf(requests'[r]).status = 202
            /\ ResponseOf(requests'[r]).statusText = Some("analyzing")
            /\ analysisCache'[c] = analysisCache[c]]_vars

\* A request was answered 'analyzing' while another handler is annotating.
C1_Witness ==
    \E r, q \in Slots :
       /\ Responded(r)
       /\ ResponseOf(requests[r]).statusText = Some("analyzing")
       /\ requests[q].pc = "annotating"
       /\ requests[q].category = requests[r].category

\* C2 as claimed: every request handled less than the TTL after a
\* successful analysis is served from the cache, whatever else is going on.
C2_Original ==
    [][\A r \in Slots :
         LET c == requests'[r].category IN
         (/\ Decided(r)
          /\ c \in Categories
          /\ analysisCache[c].data # Null
          /\ now' - analysisCache[c].timestamp < CACHE_DURATION)
         => /\ requests'[r].pc = "done"
            /\ ResponseOf(requests'[r]).cache_status # Null
            /\ ResponseOf(requests'[r]).cache_status[1].from_cache]_vars

\* C2, amended: a request handled less than the TTL after a successful
\* analysis, while the category is not loading and has no fetch error, is
\* answered 200 with the cached data and cache_status.from_cache = true.
C2_FreshCacheIsServed ==
    [][\A r \in Slots :
         LET c == requests'[r].category IN
         (/\ Decided(r)
          /\ c \in Categories
          /\ ~rawArticles[c].isLoading
          /\ rawArticles[c].lastError = Null
          /\ analysisCache[c].data # Null
          /\ now' - analysisCache[c].timestamp < CACHE_DURATION)
         => /\ requests'[r].pc = "done"
            /\ ResponseOf(requests'[r]).status = 200
            /\ ResponseOf(requests'[r]).data = analysisCache[c].data
            /\ ResponseOf(requests'[r]).cache_status # Null
            /\ ResponseOf(requests'[r]).cache_status[1].from_cache
            /\ analysisCache'[c] = analysisCache[c]]_vars

\* A response served from a cache entry that is not brand new.
C2_Witness ==
    \E r \in Slots :
       /\ Responded(r)
       /\ ResponseOf(requests[r]).cache_status # Null
       /\ ResponseOf(requests[r]).cache_status[1].from_cache
       /\ ResponseOf(requests[r]).cache_status[1].age > 0

\* C3 as claimed: every request handled when the cached analysis is at
\* least TTL old computes a fresh result.
C3_Original ==
    [][\A r \in Slots :
         LET c == requests'[r].category IN
         (/\ Decided(r)
          /\ c \in Categories
          /\ analysisCache[c].data # Null
          /\ now' - analysisCache[c].timestamp >= CACHE_DURATION)
         => requests'[r].pc = "annotating"]_vars

\* C3, amended: a request handled when the cached analysis is at least TTL
\* old, while the category is not loading, has no fetch error and no
\* analysis is in progress, starts a new analysis; when an analysis
\* completes, the response has from_cache = false and the cache entry's
\* timestamp is the completion time, at least TTL past the expired one.
C3_ExpiredCacheIsRecomputed ==
    [][\A r \in Slots :
         LET c == requests'[r].category IN
         /\ (/\ Decided(r)
             /\ c \in Categories
             /\ ~rawArticles[c].isLoading
             /\ rawArticles[c].lastError = Null
             /\ ~analysisCache[c].isAnalyzing
             /\ analysisCache[c].data # Null
             /\ now' - analysisCache[c].timestamp >= CACHE_DURATION)
            => /\ requests'[r].pc = "annotating"
               /\ analysisCache'[c].isAnalyzing
         /\ (/\ requests[r].pc = "annotating"
             /\ requests'[r].pc = "done"
             /\ ResponseOf(requests'[r]).status = 200)
            => /\ ResponseOf(requests'[r]).cache_status[1].from_cache = FALSE
               /\ ResponseOf(requests'[r]).data = analysisCache'[c].data
               /\ analysisCache'[c].timestamp = now
               /\ analysisCache[c].data # Null
                  => analysisCache'[c].timestamp
                        >= analysisCache[c].timestamp + CACHE_DURATION]_vars

\* A handler is recomputing an analysis whose cached result has expired.
C3_Witness ==
    \E r \in Slots :
       /\ requests[r].pc = "annotating"
       /\ analysisCache[requests[r].category].data # Null
       /\ now - analysisCache[requests[r].category].timestamp >= CACHE_DURATION

\* C4: when the analysis (analyzeArticles) fails after isAnalyzing was set,
\* the handler's error path clears isAnalyzing, answers 500 and leaves the
\* cached data and timestamp as they were; and isAnalyzing = true never
\* lasts forever.
C4_FlagClearedOnError ==
    /\ [][\A r \in Slots :
            LET c == requests[r].category IN
            (/\ requests[r].pc = "annotating"
             /\ requests'[r].pc = "done"
             /\ requests'[r].fault = "analysis")
            => /\ ResponseOf(requests'[r]).status = 500
               /\ ~analysisCache'[c].isAnalyzing
               /\ analysisCache'[c].data = analysisCache[c].data
               /\ analysisCache'[c].timestamp = analysisCache[c].timestamp]_vars
    /\ \A c \in Categories :
          analysisCache[c].isAnalyzing ~> ~analysisCache[c].isAnalyzing

\* A handler has answered through its error path and the flag is clear.
C4_Witness ==
    \E r \in Slots :
       /\ Responded(r)
       /\ ResponseOf(requests[r]).status = 500
       /\ ResponseOf(requests[r]).error
             = Some("Internal server error while analyzing articles")
       /\ requests[r].fault = "analysis"
       /\ ~analysisCache[requests[r].category].isAnalyzing

\* C5 as claimed: a request for a known category that arrives while the
\* category is loading in the first fetch cycle is answered 202 'loading'
\* at once.
C5_Original ==
    [][\A r \in Slots :
         LET c == requests'[r].category IN
         (/\ Arrives(r)
          /\ c \in Categories
          /\ fetcher.cycles = 1
          /\ rawArticles[c].isLoading)
         => /\ requests'[r].pc = "done"
            /\ ResponseOf(requests'[r]).statusText = Some("loading")]_vars

\* C5, amended: a request that arrives before initialLoadComplete is set is
\* suspended until the initial-load timer fires, and a request that arrives
\* after it is answered in the same turn; a request for a known category
\* whose checks run while the category is loading is answered 202
\* 'loading' and starts no analysis.
C5_LoadingAfterTheGate ==
    [][\A r \in Slots :
         LET c == requests'[r].category IN
         /\ Arrives(r) => (requests'[r].pc = "waiting" <=> ~initialLoadComplete)
         /\ (requests[r].pc = "waiting" /\ requests'[r] # requests[r])
            => (initialLoadPending /\ ~initialLoadPending')
         /\ (Decided(r) /\ c \in Categories /\ rawArticles[c].isLoading)
            => /\ requests'[r].pc = "done"
               /\ ResponseOf(requests'[r]).status = 202
               /\ ResponseOf(requests'[r]).statusText = Some("loading")
               /\ analysisCache'[c] = analysisCache[c]]_vars

\* In the first fetch cycle the initial-load timer has fired while a feed
\* of the category being fetched has not answered yet, and a request for
\* that category has been answered 'loading'.
C5_Witness ==
    \E r \in Slots :
       /\ Responded(r)
       /\ ResponseOf(requests[r]).statusText = Some("loading")
       /\ fetcher.cycles = 1
       /\ fetcher.pc = "fetch"
       /\ fetcher.started < INITIAL_LOAD_TIMEOUT
       /\ now = INITIAL_LOAD_TIMEOUT
       /\ ~initialLoadPending
       /\ CurCategory = requests[r].category

\* C6: a request for a category that is not loading, has lastError set and
\* retains no articles is answered 500 with the stored lastError as its
\* message, and starts no analysis.
C6_FetchErrorIsReported ==
    [][\A r \in Slots :
         LET c == requests'[r].category IN
         (/\ Decided(r)
          /\ c \in Categories
          /\ ~rawArticles[c].isLoading
          /\ rawArticles[c].lastError # Null
          /\ rawArticles[c].articles = <<>>)
         => /\ requests'[r].pc = "done"
            /\ ResponseOf(requests'[r]).status = 500
            /\ ResponseOf(requests'[r]).message = rawArticles[c].lastError
            /\ analysisCache'[c] = analysisCache[c]]_vars

\* The fetch error of a category without articles has been reported.
C6_Witness ==
    \E r \in Slots :
       /\ Responded(r)
       /\ ResponseOf(requests[r]).error = Some("Error fetching articles")
       /\ ResponseOf(requests[r]).message = Some(FetchErrorMessage)
       /\ rawArticles[requests[r].category].articles = <<>>

\* C7: a request for a name outside the five configured categories is
\* answered 404 with the list of valid categories, and changes neither the
\* raw article store nor the analysis cache.
C7_UnknownCategory ==
    [][\A r \in Slots :
         LET c == requests'[r].category IN
         (Decided(r) /\ c \notin Categories)
         => /\ requests'[r].pc = "done"
            /\ ResponseOf(requests'[r]).status = 404
            /\ ResponseOf(requests'[r]).available_categories = Some(CategoryOrder)
            /\ rawArticles' = rawArticles
            /\ Arrives(r) => analysisCache' = analysisCache]_vars

\* C8: every request gets a response, also one that arrives before the
\* initial load has finished; and for a category that retains no articles
\* (as one whose every source fails does), a request handled once the
\* category's processing has ended is answered with an error, 500 when the
\* sources failed.
C8_AlwaysAnswered ==
    /\ \A r \in Slots :
          (requests[r].pc \in {"waiting", "annotating"}) ~> Responded(r)
    /\ [][\A r \in Slots :
            LET c == requests'[r].category IN
            (/\ Decided(r)
             /\ c \in Categories
             /\ ~rawArticles[c].isLoading
             /\ rawArticles[c].articles = <<>>)
            => /\ requests'[r].pc = "done"
               /\ ResponseOf(requests'[r]).error # Null
               /\ ResponseOf(requests'[r]).status \in {404, 500}
               /\ rawArticles[c].lastError # Null
                  => ResponseOf(requests'[r]).status = 500]_vars

\* After the first fetch cycle has ended, a request for the category whose
\* sources all failed has its error response.
C8_Witness ==
    \E r \in Slots :
       /\ Responded(r)
       /\ ResponseOf(requests[r]).status = 500
       /\ requests[r].category \in Categories
       /\ rawArticles[requests[r].category].lastError # Null
       /\ ~rawArticles[requests[r].category].isLoading
       /\ polling = "interval"

(***************************************************************************)
(* Properties of the retained article lists.                               *)
(***************************************************************************)
NoDuplicateUrls(s) ==
    \A i, j \in 1..Len(s) : s[i].url = s[j].url => i = j

\* The latest merge: what was retained before it, what the cycle fetched
\* (in fetch order), and what is retained now.
Merged == lastMerge[1]
Seen == Merged.existing \o Merged.fetched
Kept == rawArticles[Merged.category].articles

\* The position in Seen of the entry with url u that was seen last.
LastSeenAt(u) ==
    CHOOSE i \in 1..Len(Seen) :
       /\ Seen[i].url = u
       /\ \A j \in 1..Len(Seen) : Seen[j].url = u => j <= i

\* C9: every retained list holds each url at most once, and the entry kept
\* for a url is the one seen last: the newly fetched item rather than the
\* retained one, and the last fetched among several new ones.
C9_LastSeenIsKept ==
    /\ \A c \in Categories : NoDuplicateUrls(rawArticles[c].articles)
    /\ lastMerge # Null =>
          \A k \in 1..Len(Kept) : Kept[k] = Seen[LastSeenAt(Kept[k].url)]

\* A merge met the same url in a retained entry and in a different fetched
\* one, and the url is still retained.
C9_Witness ==
    /\ lastMerge # Null
    /\ \E i \in 1..Len(Merged.existing), j \in 1..Len(Merged.fetched),
          k \in 1..Len(Kept) :
          /\ Merged.existing[i].url = Merged.fetched[j].url
          /\ Merged.existing[i] # Merged.fetched[j]
          /\ Kept[k].url = Merged.fetched[j].url

\* C10 as claimed: the entry retained for a url carries the newest of the
\* timestamps seen for that url, in whichever order they were fetched.
C10_Original ==
    lastMerge # Null =>
       \A k \in 1..Len(Kept), i \in 1..Len(Seen) :
          Seen[i].url = Kept[k].url => Kept[k].timestamp >= Seen[i].timestamp

\* C10, amended: the entry retained for a url carries the timestamp of the
\* entry fetched last for that url (the later cycle, or the later source or
\* item within one cycle), whether or not that is the newest one.
C10_LastFetchedTimestamp ==
    lastMerge # Null =>
       \A k \in 1..Len(Kept) :
          Kept[k].timestamp = Seen[LastSeenAt(Kept[k].url)].timestamp

\* The entry retained for a url is older than one seen earlier for it.
C10_Witness ==
    /\ lastMerge # Null
    /\ \E k \in 1..Len(Kept), i \in 1..Len(Seen) :
          /\ Seen[i].url = Kept[k].url
          /\ Seen[i].timestamp > Kept[k].timestamp

\* The urls of the latest merge's inputs.
SeenUrls == {Seen[i].url : i \in 1..Len(Seen)}

SortedNewestFirst(s) ==
    \A i, j \in 1..Len(s) : i < j => s[i].timestamp >= s[j].timestamp

\* C11: every category retains at most 10 articles, newest first; a merge
\* keeps min(10, number of urls seen) of them, and no entry it drops (the
\* entry seen last for its url) is newer than one it keeps.
C11_RetentionCap ==
    /\ \A c \in Categories :
          /\ Len(rawArticles[c].articles) <= RetainedCount
          /\ SortedNewestFirst(rawArticles[c].articles)
    /\ lastMerge # Null =>
          /\ Len(Kept) = Min(Cardinality(SeenUrls), RetainedCount)
          /\ \A u \in SeenUrls :
                (\A k \in 1..Len(Kept) : Kept[k].url # u)
                => \A k \in 1..Len(Kept) :
                      Kept[k].timestamp >= Seen[LastSeenAt(u)].timestamp

\* A merge saw more than 10 urls and dropped an entry older than one it kept.
C11_Witness ==
    /\ lastMerge # Null
    /\ Cardinality(SeenUrls) > RetainedCount
    /\ Len(Kept) = RetainedCount
    /\ \E u \in SeenUrls, k \in 1..Len(Kept) :
          /\ \A j \in 1..Len(Kept) : Kept[j].url # u
          /\ Kept[k].timestamp > Seen[LastSeenAt(u)].timestamp

(***************************************************************************)
(* Properties of a fetch cycle.                                            *)
(***************************************************************************)
\* The step in which fetchWithRetry settles for the current feed.
Settles == fetcher.pc = "fetch" /\ fetcher'.pc = "feedDelay"

\* The step in which the cycle finishes the category it is processing.
EndsCategory ==
    /\ fetcher.pc = "feedDelay"
    /\ fetcher.feed = Len(CurFeeds)
    /\ fetcher' # fetcher

\* What GET /api/articles/:category would do for category c if its checks
\* ran in this state.
ProbeRequest(c) ==
    HandleChecks(1, [cache |-> analysisCache,
                     reqs |-> [r \in Slots |->
                                 [IdleRequest EXCEPT !.category = c]]],
                 now).reqs[1]

IsFetchError(req) ==
    /\ req.pc = "done"
    /\ ResponseOf(req).error = Some("Error fetching articles")

Elements(seq) == {seq[i] : i \in 1..Len(seq)}

\* C12: a source that exhausts its retries adds nothing to the cycle's
\* articles; when the cycle finishes a category of which at least one source
\* succeeded, every fetched url is retained (the list being below its cap),
\* every retained entry is a fetched or a previously retained one, lastError
\* is null, and a request handled then is not answered with the fetch error.
C12_PartialFailureIsNoError ==
    [][/\ (Settles /\ fetcher'.failed > fetcher.failed)
          => /\ fetcher'.allArticles = fetcher.allArticles
             /\ fetcher'.categorySuccess = fetcher.categorySuccess
       /\ \A c \in Categories :
          (EndsCategory /\ fetcher.categorySuccess /\ c = CurCategory)
          => LET old == rawArticles[c].articles
                 new == rawArticles'[c].articles
             IN  /\ Elements(new) \subseteq
                       Elements(old) \cup Elements(fetcher.allArticles)
                 /\ Len(new) < RetainedCount
                       => \A a \in Elements(fetcher.allArticles) :
                             \E b \in Elements(new) : b.url = a.url
                 /\ rawArticles'[c].lastError = Null
                 /\ ~rawArticles'[c].isLoading
                 /\ ~IsFetchError(ProbeRequest(c)')]_vars

\* A category was finished with one source failed and the items of the
\* other retained, and it carries no error.
C12_Witness ==
    /\ lastMerge # Null
    /\ Merged.failed > 0
    /\ Merged.fetched # <<>>
    /\ Elements(Merged.fetched) \subseteq Elements(Kept)
    /\ rawArticles[Merged.category].lastError = Null
    /\ ~rawArticles[Merged.category].isLoading
    /\ ~IsFetchError(ProbeRequest(Merged.category))

\* C13: when the cycle finishes a category none of whose sources succeeded,
\* lastError is set to a non-empty message and the retained list is the one
\* the category had; no other step of a cycle changes a retained list but
\* the merge of a category with a successful source.
C13_TotalFailureKeepsArticles ==
    [][/\ \A c \in Categories :
             (EndsCategory /\ ~fetcher.categorySuccess /\ c = CurCategory)
             => /\ rawArticles'[c].lastError # Null
                /\ rawArticles'[c].lastError # Some("")
                /\ rawArticles'[c].articles = rawArticles[c].articles
       /\ \A c \in Categories :
             rawArticles'[c].articles # rawArticles[c].articles
             => EndsCategory /\ fetcher.categorySuccess /\ c = CurCategory]_vars

\* A category that retains articles from an earlier cycle carries the error
\* of a cycle in which all its sources failed.
C13_Witness ==
    \E c \in Categories :
       /\ rawArticles[c].lastError # Null
       /\ rawArticles[c].articles # <<>>
       /\ ~rawArticles[c].isLoading

(***************************************************************************)
(* Properties of the functions taken alone.                                *)
(***************************************************************************)
Called(op) == lastCall # Null /\ lastCall[1].op = op
Call == lastCall[1]

\* C14: fetchWithRetry makes at most 3 attempts; it returns the result of
\* the first attempt that succeeds and makes none after it; it fails only
\* when 3 attempts failed; it waits once after each failed attempt but the
\* last one made, 1000 * 2^(k-1) ms plus a jitter in [0, 1000) after
\* attempt k.
C14_RetrySchedule ==
    Called("fetchWithRetry") =>
       LET o == Call.outcomes
           res == Call.result
       IN  /\ res.attempts \in 1..3
           /\ res.ok => /\ o[res.attempts] # Null
                        /\ res.feedData = o[res.attempts][1]
                        /\ \A k \in 1..(res.attempts - 1) : o[k] = Null
           /\ ~res.ok => /\ res.attempts = 3
                         /\ \A k \in 1..3 : o[k] = Null
           /\ Len(res.delays) = res.attempts - 1
           /\ \A k \in 1..Len(res.delays) :
                 /\ res.delays[k] = 1000 * 2^(k - 1) + Call.jitters[k]
                 /\ res.delays[k] >= 1000 * 2^(k - 1)
                 /\ res.delays[k] < 1000 * 2^(k - 1) + 1000

\* A call failed two attempts, waited twice and succeeded at the third.
C14_Witness ==
    /\ Called("fetchWithRetry")
    /\ Call.result.ok
    /\ Call.result.attempts = 3
    /\ Len(Call.result.delays) = 2
    /\ Call.result.delays[2] > Call.result.delays[1]

\* The result carries the article's identity and the neutral zero scores.
IsNeutralFallbackOf(result, article) ==
    /\ result.title = article.title
    /\ result.url = article.url
    /\ result.source = article.source
    /\ result.timestamp = article.timestamp
    /\ result.overall_sentiment = "neutral"
    /\ result.sentiment_score = Some(0)
    /\ result.bias_level = Some(0)
    /\ result.manipulative_score = Some(0)

\* C15: when the LLM call fails or its reply is not JSON, analyzeSentiment
\* returns a result with the article's title, url, source and timestamp,
\* overall_sentiment 'neutral' and sentiment_score, bias_level and
\* manipulative_score 0.
C15_AnnotatorDegrades ==
    (Called("analyzeSentiment") /\ Call.reply.kind \in {"error", "text"})
    => IsNeutralFallbackOf(Call.result, Call.article)

\* A non-JSON reply for an article of the feed without a title was answered
\* with the fallback.
C15_Witness ==
    /\ Called("analyzeSentiment")
    /\ Call.reply.kind = "text"
    /\ Call.article.source = RSS_FEEDS[6].host
    /\ Call.result.summary = "Analysis temporarily unavailable"
    /\ Call.result.sentiment_score = Some(0)

\* The reply is a JSON object outside the schema: the score is missing or
\* not a number or outside [-1, 1], or the sentiment is no member of the
\* enumeration.
ViolatesSchema(reply) ==
    \/ reply.sentiment_score = Null
    \/ ~IsNumber(reply.sentiment_score)
    \/ reply.sentiment_score[1] < -10
    \/ reply.sentiment_score[1] > 10
    \/ reply.sentiment \notin {"positive", "negative", "neutral"}

\* C16: a JSON reply that violates the schema yields the fallback result, so
\* every result has overall_sentiment in {positive, negative, neutral} and
\* sentiment_score in [-1, 1].
C16_SchemaViolationFallsBack ==
    Called("analyzeSentiment") =>
       /\ (Call.reply.kind = "json" /\ ViolatesSchema(Call.reply))
          => /\ IsNeutralFallbackOf(Call.result, Call.article)
             /\ Call.result.summary = "Analysis temporarily unavailable"
             /\ Call.result.negative = "Analysis temporarily unavailable"
       /\ Call.result.overall_sentiment \in {"positive", "negative", "neutral"}
       /\ Call.result.sentiment_score # Null
       /\ IsNumber(Call.result.sentiment_score)
       /\ Call.result.sentiment_score[1] >= -10
       /\ Call.result.sentiment_score[1] <= 10

\* The score of a as the comparisons read it, and whether it reads as a
\* number at all.
Score(a) == ToNumber(a.sentiment_score)[1]
Scored(a) == ToNumber(a.sentiment_score) # Null

\* s is in non-increasing order of sign * score.
OrderedByScore(s, sign) ==
    \A i, j \in 1..Len(s) : i < j => sign * Score(s[i]) >= sign * Score(s[j])

\* list holds min(5, number of qualifying articles) of the qualifying
\* articles, and no qualifying article left out ranks above one in it.
HoldsTheTop(list, qualifying, sign) ==
    /\ Elements(list) \subseteq qualifying
    /\ Len(list) = Min(Cardinality(qualifying), 5)
    /\ Cardinality(Elements(list)) = Len(list)
    /\ \A a \in qualifying \ Elements(list), e \in Elements(list) :
          sign * Score(e) >= sign * Score(a)

\* C17: the positive list holds only articles scored above 0.3, highest
\* first, the negative list only articles scored below -0.3, lowest first,
\* the neutral list only articles that qualify for neither; each list has at
\* most 5 entries, and the positive (negative) list holds the 5 highest
\* (lowest) scored of the qualifying articles when there are more than 5.
C17_PartitionLists ==
    Called("partition") =>
       LET all == Elements(Call.analyzed)
           res == Call.result
       IN  /\ HoldsTheTop(res.positive, {a \in all : Scored(a) /\ Score(a) > 3}, 1)
           /\ OrderedByScore(res.positive, 1)
           /\ HoldsTheTop(res.negative, {a \in all : Scored(a) /\ Score(a) < -3}, -1)
           /\ OrderedByScore(res.negative, -1)
           /\ Elements(res.neutral) \subseteq
                 {a \in all : ~(Scored(a) /\ Score(a) > 3)
                               /\ ~(Scored(a) /\ Score(a) < -3)}
           /\ Len(res.neutral) <= 5

\* Six articles qualified as positive with different scores: five are
\* listed and the one left out scores lower than one listed.
C17_Witness ==
    /\ Called("partition")
    /\ Cardinality({a \in Elements(Call.analyzed) : Scored(a) /\ Score(a) > 3}) > 5
    /\ Len(Call.result.positive) = 5
    /\ \E a \in Elements(Call.analyzed), e \in Elements(Call.result.positive) :
          /\ a \notin Elements(Call.result.positive)
          /\ Scored(a)
          /\ Score(a) > 3
          /\ Score(e) > Score(a)

(***************************************************************************)
(* Properties of GET /api/articles.                                        *)
(***************************************************************************)
\* The step in which GET /api/articles is handled in slot r.
IndexHandled(r) == Arrives(r) /\ requests'[r].category = ""

\* C18: GET /api/articles answers 200 with each category's article count and
\* a freshness flag that is true exactly when a cached analysis younger than
\* the TTL exists; it changes neither the raw article store nor any cache
\* entry, and it starts or advances no annotator run.
C18_IndexIsReadOnly ==
    [][\A r \in Slots :
         IndexHandled(r) =>
            /\ rawArticles' = rawArticles
            /\ analysisCache' = analysisCache
            /\ \A q \in Slots :
                  requests'[q].pc = "annotating" => requests'[q] = requests[q]
            /\ requests'[r].pc = "done"
            /\ ResponseOf(requests'[r]).status = 200
            /\ \A c \in Categories :
                  LET sum == ResponseOf(requests'[r]).data[1].articles_per_category[c]
                  IN  /\ sum.article_count = Len(rawArticles[c].articles)
                      /\ sum.has_analysis = Some(TRUE)
                            <=> /\ analysisCache[c].data # Null
                                /\ now - analysisCache[c].timestamp < 300000]_vars

\* The index was served while a category held articles and a fresh analysis.
C18_Witness ==
    \E r \in Slots :
       /\ Responded(r)
       /\ requests[r].category = ""
       /\ \E c \in Categories :
             LET sum == ResponseOf(requests[r]).data[1].articles_per_category[c]
             IN  /\ sum.article_count > 0
                 /\ sum.has_analysis = Some(TRUE)

(***************************************************************************)
(* Properties of GET /api/llm-news-summary/:category.                      *)
(***************************************************************************)
\* The retained raw articles of the category a request names.
Retained(c) ==
    IF toLowerCase(c) \in Categories
    THEN rawArticles[toLowerCase(c)].articles ELSE <<>>

\* The step in which a summary request arrives in slot r.
SummaryArrives(r) ==
    /\ FreeChat(r)
    /\ chats'[r] # chats[r]
    /\ chats'[r].route = "summary"

\* C19: a summary request is answered 404 exactly when its category retains
\* no raw articles (unknown categories included); otherwise one LLM call is
\* made whose context is the first 5 retained articles, none of them older
\* than a retained article left out; no step of the handler changes the
\* analysis cache, and the outcome depends on the retained list alone.
C19_SummaryFromFirstFive ==
    [][\A r \in Slots :
         /\ (chats'[r] # chats[r] /\ chats'[r].route = "summary")
               => analysisCache' = analysisCache /\ rawArticles' = rawArticles
         /\ SummaryArrives(r) =>
               LET kept == Retained(chats'[r].category)
                   chat == chats'[r]
               IN  /\ (chat.pc = "done" /\ chat.response[1].status = 404)
                         <=> kept = <<>>
                   /\ kept # <<>> =>
                         /\ chat.pc = "summarizing"
                         /\ Len(chat.calls) = 1
                         /\ chat.calls[1].to = "llm"
                         /\ LET context == chat.calls[1].context
                            IN  /\ Len(context) = Min(5, Len(kept))
                                /\ \A i \in 1..Len(context) :
                                      /\ context[i].title = kept[i].title
                                      /\ context[i].content = kept[i].content
                                      /\ \A j \in (Len(context) + 1)..Len(kept) :
                                            kept[i].timestamp >= kept[j].timestamp]_vars

\* A summary is being built from 5 of more than 5 retained articles while
\* the category's analysis is running and its last fetch has failed.
C19_Witness ==
    \E r \in Slots :
       /\ chats[r].route = "summary"
       /\ chats[r].pc = "summarizing"
       /\ Len(chats[r].calls[1].context) = 5
       /\ Len(rawArticles["breaking"].articles) > 5
       /\ analysisCache["breaking"].isAnalyzing
       /\ rawArticles["breaking"].lastError # Null

(***************************************************************************)
(* Properties of POST /api/chat.                                           *)
(***************************************************************************)
IsResolved(call) == call.result # Null /\ call.result[1].settled = "resolved"
HasFailed(call) == call.result # Null /\ call.result[1].settled # "resolved"

\* No message: 400 and no collaborator call.
NoMessageIsRejected(chat) ==
    Falsy(chat.message) =>
       /\ chat.pc = "done"
       /\ chat.response[1].status = 400
       /\ chat.calls = <<>>

\* The search is called first, the LLM only after the search succeeded.
SearchThenLLM(chat) ==
    ~Falsy(chat.message) =>
       /\ Len(chat.calls) \in {1, 2}
       /\ chat.calls[1].to = "search"
       /\ Len(chat.calls) = 2 =>
             /\ chat.calls[2].to = "llm"
             /\ IsResolved(chat.calls[1])

\* {answer} only when both calls succeeded.
AnswerNeedsBoth(chat) ==
    (chat.pc = "done" /\ chat.response[1].answer # Null) =>
       /\ chat.response[1].status = 200
       /\ Len(chat.calls) = 2
       /\ IsResolved(chat.calls[1])
       /\ IsResolved(chat.calls[2])
       /\ chat.response[1].answer = Some(chat.calls[2].result[1].text)

\* A failed call is answered 500 with the error's message.
FailureIsReported(chat, call) ==
    /\ chat.pc = "done"
    /\ chat.response[1].status = 500
    /\ chat.response[1].detail = Some(call.result[1].text)

\* The contract for collaborators whose promises settle.
ChatContractWhenSettled ==
    \A r \in Slots :
       chats[r].route = "chat" =>
          /\ NoMessageIsRejected(chats[r])
          /\ SearchThenLLM(chats[r])
          /\ AnswerNeedsBoth(chats[r])
          /\ \A i \in 1..Len(chats[r].calls) :
                (chats[r].calls[i].result # Null
                   /\ chats[r].calls[i].result[1].settled = "rejected")
                   => FailureIsReported(chats[r], chats[r].calls[i])

\* C20: POST /api/chat with no message answers 400 and calls no
\* collaborator; with a message it calls the search first and the LLM only
\* after the search succeeded; it answers {answer} only when both succeeded,
\* and answers 500 with the underlying message when either call fails.
C20_ChatContract ==
    \A r \in Slots :
       chats[r].route = "chat" =>
          /\ NoMessageIsRejected(chats[r])
          /\ SearchThenLLM(chats[r])
          /\ AnswerNeedsBoth(chats[r])
          /\ \A i \in 1..Len(chats[r].calls) :
                HasFailed(chats[r].calls[i])
                   => FailureIsReported(chats[r], chats[r].calls[i])

(***************************************************************************)
(* Properties of POST /api/voice-to-text and of the page's voice input.    *)
(***************************************************************************)
\* C21: a voice request without a file is answered 400 with no call of the
\* transcription; a transcription that returns a text is answered {text}, one
\* that returns no text is answered with an error that carries the raw
\* reply, and one that fails is answered 500.
C21_VoiceContract ==
    \A r \in Slots :
       chats[r].route = "voice" =>
          /\ chats[r].file = Null =>
                /\ chats[r].pc = "done"
                /\ chats[r].response[1].status = 400
                /\ chats[r].calls = <<>>
          /\ \A i \in 1..Len(chats[r].calls) :
                LET result == chats[r].calls[i].result
                    resp == chats[r].response[1]
                IN  result # Null =>
                      /\ chats[r].pc = "done"
                      /\ (result[1].settled = "resolved" /\ result[1].text # "")
                            => /\ resp.status = 200
                               /\ resp.error = Null
                               /\ resp.text = Some(result[1].text)
                      /\ (result[1].settled = "resolved" /\ result[1].text = "")
                            => /\ resp.error # Null
                               /\ resp.text = Null
                               /\ resp.whisperResp = result
                      /\ result[1].settled = "rejected"
                            => resp.status = 500 /\ resp.text = Null

\* One request was refused for its missing file while another was answered
\* with the raw reply of a transcription that returned no text.
C21_Witness ==
    \E r, q \in Slots :
       /\ chats[r].route = "voice"
       /\ chats[r].pc = "done"
       /\ chats[r].file = Null
       /\ chats[r].response[1].status = 400
       /\ chats[q].route = "voice"
       /\ chats[q].pc = "done"
       /\ chats[q].response[1].whisperResp # Null

\* The step in which the stop event of one of the page's recorders is
\* handled.
RecordingStops ==
    \E k \in 1..Len(widget.recorders) :
       /\ widget.recorders[k] = "stopping"
       /\ Len(widget'.recorders) = Len(widget.recorders)
       /\ widget'.recorders[k] = "inactive"

\* The step in which a voice request carrying an audio file arrives in r.
AudioArrives(r) ==
    /\ chats'[r] # chats[r]
    /\ chats[r].pc # "transcribing"
    /\ chats'[r].route = "voice"
    /\ chats'[r].file # Null
    /\ chats'[r].file[1].field = "audio"

\* C22: a recording that stops with a blob of more than 24 MiB sends no
\* request, one of at most 24 MiB is uploaded as it is, so that no upload of
\* the page, on its way or handled, is larger than 24 MiB; the server
\* refuses no audio file for its size: it goes on to transcribe it.
C22_SizeBoundIsClientSide ==
    [][/\ RecordingStops =>
            /\ chats' = chats
            /\ widget'.voice = widget.voice
            /\ widget'.uploads =
                  IF widget.chunks > 24 * 1024 * 1024
                  THEN widget.uploads
                  ELSE Append(widget.uploads, widget.chunks)
       /\ \A i \in 1..Len(widget'.uploads) :
             widget'.uploads[i] <= 24 * 1024 * 1024
       /\ \A q \in Slots :
             AudioArrives(q) =>
                /\ chats'[q].pc = "transcribing"
                /\ q \in widget'.voice => chats'[q].file[1].size <= 24 * 1024 * 1024]_vars

\* The page has dropped a recording of more than 24 MiB while the server
\* transcribes a larger file that another client sent.
C22_Witness ==
    /\ \E k \in 1..Len(widget.recorders) : widget.recorders[k] = "inactive"
    /\ widget.chunks > 24 * 1024 * 1024
    /\ widget.body # <<>>
    /\ widget.body[Len(widget.body)].text = TooLongText
    /\ widget.uploads = <<>>
    /\ widget.voice = {}
    /\ \E r \in Slots :
          /\ chats[r].route = "voice"
          /\ chats[r].pc = "transcribing"
          /\ chats[r].file[1].size > 24 * 1024 * 1024

(***************************************************************************)
(* Properties of POST /api/chat/test.                                      *)
(***************************************************************************)
\* The step in which a test request is handled in slot r.
TestHandled(r) ==
    /\ FreeChat(r)
    /\ chats'[r] # chats[r]
    /\ chats'[r].route = "test"

\* C23: a test request with a message is answered at once with an answer
\* and a context that are functions of the message alone and contain it; it
\* calls no collaborator and changes nothing but its own response; two
\* answered test requests with the same message carry identical responses.
C23_TestIsDeterministic ==
    /\ [](\A r, q \in Slots :
            (/\ chats[r].route = "test"
             /\ chats[q].route = "test"
             /\ chats[r].message = chats[q].message)
               => chats[r].response = chats[q].response)
    /\ [][\A r \in Slots :
            TestHandled(r) =>
               /\ chats'[r].pc = "done"
               /\ chats'[r].calls = <<>>
               /\ \A q \in Slots \ {r} : chats'[q] = chats[q]
               /\ UNCHANGED <<rawArticles, analysisCache, requests, fetcher,
                              polling, widget>>
               /\ ~Falsy(chats'[r].message) =>
                     LET resp == chats'[r].response[1]
                         message == chats'[r].message[1]
                     IN  /\ resp.status = 200
                         /\ resp.context = Some(<<"Mock context for: ", message>>)
                         /\ resp.answer[1][2] = message
                         /\ resp.answer[1][4] = resp.context[1]]_vars

\* Two test requests with the same message were answered, the second one
\* after a chat request had failed.
C23_Witness ==
    /\ chats[1].route = "test"
    /\ chats[2].route = "test"
    /\ chats[1].message = Some("q2")
    /\ chats[2].message = Some("q2")

(***************************************************************************)
(* The serverless backend against the local server.                        *)
(***************************************************************************)
\* What the serverless news function answers to the request of slot r when
\* its feeds return nothing, each after FeedLatencyMs.
ServerlessAnswer(r) ==
    handler("GET", requests[r].category,
            [i \in 1..2 |-> [k \in 1..maxRetries |->
                               Some([title |-> Null, items |-> <<>>])]],
            [i \in 1..2 |-> [k \in 1..maxRetries |-> 0]],
            [i \in 1..2 |-> [k \in 1..maxRetries |-> FeedLatencyMs]],
            <<>>, <<>>, now)

\* C24: the serverless backend answers as the local server does: the same
\* status for a request the local server has answered 'Category not found'
\* or 'No articles available', the same cap on the articles of a category,
\* and the same set of routes.
C24_ServerlessAsLocal ==
    /\ \A r \in Slots :
          (/\ Responded(r)
           /\ requests[r].category # ""
           /\ ResponseOf(requests[r]).status = 404)
             => ServerlessAnswer(r).statusCode = ResponseOf(requests[r]).status
    /\ RetainedCount = ServerlessCount
    /\ LocalRoutes = ServerlessRoutes

\* The part of it that fails on a request: an unknown category.
C24_UnknownCategoryAsLocal ==
    \A r \in Slots :
       (/\ Responded(r)
        /\ requests[r].category \notin Categories \cup {""}
        /\ ResponseOf(requests[r]).status = 404)
          => ServerlessAnswer(r).statusCode = 404

(***************************************************************************)
(* Properties of the analysis run.                                         *)
(***************************************************************************)
\* Two handlers are inside analyzeArticles for the same category.
TwoRunsInProgress ==
    \E r, q \in Slots :
       /\ r # q
       /\ requests[r].pc = "annotating"
       /\ requests[q].pc = "annotating"
       /\ requests[r].category = requests[q].category

\* C25 as stated, for two requests as concurrent as handlers can be: both
\* wait at the gate for one category while isAnalyzing is false and are
\* resumed in one turn.  Both see isAnalyzing = false, so when one of them
\* starts an analysis run the other starts one too.
C25_Original ==
    [][\A r, q \in Slots :
         (/\ r # q
          /\ requests[r].pc = "waiting"
          /\ requests[q].pc = "waiting"
          /\ requests[r].category = requests[q].category
          /\ requests[r].category \in Categories
          /\ ~analysisCache[requests[r].category].isAnalyzing
          /\ requests'[r].pc = "annotating")
         => requests'[q].pc = "annotating"]_vars

\* C25, amended: the test of isAnalyzing and its setting are in one turn of
\* the event loop, so at no time are two analysis runs in progress for one
\* category, and the category of a run in progress has isAnalyzing set.
C25_NoDuplicateRun ==
    /\ ~TwoRunsInProgress
    /\ \A r \in Slots :
          requests[r].pc = "annotating"
             => analysisCache[requests[r].category].isAnalyzing

\* One request is running the analysis of a category and a second request
\* for the same category has been answered 202 'analyzing'.
C25_Witness ==
    \E r, q \in Slots :
       /\ requests[r].pc = "annotating"
       /\ Responded(q)
       /\ requests[q].category = requests[r].category
       /\ ResponseOf(requests[q]).status = 202
       /\ ResponseOf(requests[q]).statusText = Some("analyzing")

\* The step in which the handler of slot r starts an analysis run.
RunStarts(r) == requests[r].pc # "annotating" /\ requests'[r].pc = "annotating"

\* The step in which an annotator call of the run of slot r returns.
CallReturns(r) == requests[r].pc = "annotating" /\ requests'[r] # requests[r]

\* The step in which the run of slot r ends with a result.
RunCompletes(r) ==
    /\ CallReturns(r)
    /\ requests'[r].pc = "done"
    /\ ResponseOf(requests'[r]).status = 200

\* C26: the step that starts a run sets isAnalyzing and takes the retained
\* list; every later step of the run is the return of the one outstanding
\* annotator call, for the next article of that list in order; no step but
\* the return of the last call stores a result, and that step stores it with
\* the current time and isAnalyzing = false before anything is answered: the
\* answer is 200 with from_cache false, or the 500 of the catch when the
\* lines after the write (548-555) throw.
C26_RunIsSequential ==
    [][\A r \in Slots :
         LET c == requests[r].category
             req == requests[r]
         IN  /\ RunStarts(r) =>
                   /\ analysisCache'["breaking"].isAnalyzing
                   /\ ~analysisCache["breaking"].isAnalyzing
                   /\ analysisCache'["breaking"].data = analysisCache["breaking"].data
                   /\ requests'[r].articles = rawArticles["breaking"].articles
                   /\ requests'[r].analyzed = <<>>
             /\ (CallReturns(r) /\ requests'[r].pc = "annotating") =>
                   /\ analysisCache' = analysisCache
                   /\ requests'[r].articles = req.articles
                   /\ Len(requests'[r].analyzed) = Len(req.analyzed) + 1
                   /\ Len(requests'[r].analyzed) < Len(req.articles)
                   /\ SubSeq(requests'[r].analyzed, 1, Len(req.analyzed)) = req.analyzed
                   /\ requests'[r].analyzed[Len(req.analyzed) + 1].url
                         = req.articles[Len(req.analyzed) + 1].url
             /\ RunCompletes(r) =>
                   /\ Len(req.analyzed) + 1 = Len(req.articles)
                   /\ analysisCache'[c].timestamp = now
                   /\ ~analysisCache'[c].isAnalyzing
                   /\ analysisCache'[c].data = ResponseOf(requests'[r]).data
                   /\ ResponseOf(requests'[r]).cache_status[1].from_cache = FALSE
             /\ (req.pc = "annotating" /\ analysisCache'[c].data # analysisCache[c].data)
                   => /\ CallReturns(r)
                      /\ Len(req.analyzed) + 1 = Len(req.articles)
                      /\ analysisCache'[c].timestamp = now
                      /\ ~analysisCache'[c].isAnalyzing
                      /\ RunCompletes(r) \/ requests'[r].fault = "response"]_vars

\* A run over three articles has annotated two of them and awaits the third
\* call, nothing stored yet.
C26_Witness ==
    \E r \in Slots :
       /\ requests[r].pc = "annotating"
       /\ Len(requests[r].articles) = 3
       /\ Len(requests[r].analyzed) = 2
       /\ analysisCache["breaking"].isAnalyzing
       /\ analysisCache["breaking"].data = Null

\* The number of the result's lists that hold article a.
ListsHolding(res, a) ==
    (IF a \in Elements(res.positive) THEN 1 ELSE 0)
      + (IF a \in Elements(res.negative) THEN 1 ELSE 0)
      + (IF a \in Elements(res.neutral) THEN 1 ELSE 0)

\* C27: neutral is the remainder: of a run over at most 5 articles, where
\* no cap applies, every annotated article is in exactly one of the three
\* lists, whatever its score, a missing one included.
C27_NeutralIsRemainder ==
    (Called("partition") /\ Len(Call.analyzed) <= 5) =>
       \A a \in Elements(Call.analyzed) : ListsHolding(Call.result, a) = 1

\* The same for the articles whose score reads as a number.
C27_ScoredInOneList ==
    (Called("partition") /\ Len(Call.analyzed) <= 5) =>
       \A a \in Elements(Call.analyzed) :
          ListsHolding(Call.result, a) = IF Scored(a) THEN 1 ELSE 0

\* C30: the result a run stores carries as summary.total_articles the
\* number of articles the run annotated, also when a fetch cycle has
\* replaced the category's retained list during the run.
C30_TotalIsRunLength ==
    [][\A r \in Slots :
         RunCompletes(r) =>
            analysisCache'[requests[r].category].data[1].summary.total_articles
               = Len(requests[r].articles)]_vars

\* What the code stores: the length of the list retained when the run ends.
C30_TotalIsRetainedAtEnd ==
    [][\A r \in Slots :
         RunCompletes(r) =>
            analysisCache'[requests[r].category].data[1].summary.total_articles
               = Len(rawArticles[requests[r].category].articles)]_vars

\* A step of an HTTP handler: a request arrives or a call it awaits settles.
HandlerActs == requests' # requests \/ chats' # chats

\* A step of the fetch cycle.
FetcherActs == fetcher' # fetcher

\* C28: no step of an HTTP handler (articles by category, overview,
\* llm-news-summary, chat, voice), answering with success or with an error,
\* changes a category's articles, isLoading or lastError; every step that
\* changes one of them is a step of the fetch cycle.
C28_RawStateOnlyByFetcher ==
    [][/\ HandlerActs => rawArticles' = rawArticles
       /\ rawArticles' # rawArticles => FetcherActs]_vars

\* A second cycle has replaced the retained list, and the handlers have
\* answered with an error and with a success.
C28_Witness ==
    /\ fetcher.cycles > 1
    /\ Len(rawArticles["breaking"].articles) > MaxItems
    /\ requests[RouteSlot].pc = "done"
    /\ ResponseOf(requests[RouteSlot]).status = 500
    /\ chats[RouteSlot].pc = "done"
    /\ chats[RouteSlot].route = "summary"
    /\ ResponseOf(chats[RouteSlot]).status = 200

\* The first cycle has ended: every feed of it has returned or failed.
FirstCycleEnded ==
    fetcher.pc = "idle" /\ fetcher.cycles > 0

\* Every category ended the latest cycle with an error: all sources failed.
AllCategoriesFailed ==
    \A c \in Categories : rawArticles[c].lastError # Null

\* The polling timer is installed when the first cycle has ended, whatever
\* its outcome.
TimerInstalled == [](FirstCycleEnded => polling = "interval")

\* C29: one cycle runs at process start and the polling timer is installed
\* when it ends, whether it succeeded or failed; no failure of a source, of
\* a category or of a request stops the later cycles: all the cycles
\* explored occur.
C29_PollingNeverStops ==
    TimerInstalled /\ <>(fetcher.cycles = MaxCycles /\ fetcher.pc = "idle")

\* What holds in the code: the cycles keep occurring unless an uncaught
\* exception ends the process.
C29_PollingWhileAlive ==
    TimerInstalled /\ <>(Crashed \/ (fetcher.cycles = MaxCycles /\ fetcher.pc = "idle"))

\* The last cycle explored has ended after cycles in which every source of
\* every category failed, and an article request was answered 500.
C29_AfterFailures ==
    /\ fetcher.cycles = MaxCycles
    /\ fetcher.pc = "idle"
    /\ AllCategoriesFailed
    /\ requests[RouteSlot].pc = "done"
    /\ ResponseOf(requests[RouteSlot]).status = 500

\* The process has ended before the last cycle explored.
C29_CrashedBeforeLastCycle ==
    Crashed /\ fetcher.cycles < MaxCycles

\* The category retains articles and has a cached analysis younger than the
\* TTL.
RetainedAndFresh(c) ==
    /\ rawArticles[c].articles # <<>>
    /\ FreshCache(analysisCache[c], now)

\* A handler resumed earlier in the same turn (an earlier waiter on
\* initialLoadPromise) has started the analysis of the category of slot r.
StartedBefore(r) ==
    \E i, j \in 1..Len(waiters) :
       /\ i < j
       /\ waiters[j] = r
       /\ requests[r].pc = "waiting"
       /\ requests[waiters[i]].category = requests[r].category
       /\ requests'[waiters[i]].pc = "annotating"

\* C31: the handler's checks have a fixed precedence.  A request for a known
\* category handled while isLoading is true is answered 202 'loading'; one
\* handled while isLoading is false and lastError is set is answered 500;
\* then come no articles (404), a fresh cache (200 from the cache), an
\* analysis in progress, also one started earlier in the same turn (202
\* 'analyzing'), and the start of a new analysis.  The first two hold also
\* with retained articles and a fresh cache.
C31_CheckPrecedence ==
    [][\A r \in Slots :
         LET c == requests'[r].category
             resp == ResponseOf(requests'[r])
         IN  (Decided(r) /\ c \in Categories) =>
             IF rawArticles[c].isLoading
             THEN requests'[r].pc = "done" /\ resp.status = 202
                  /\ resp.statusText = Some("loading")
             ELSE IF rawArticles[c].lastError # Null
             THEN requests'[r].pc = "done" /\ resp.status = 500
                  /\ resp.message = rawArticles[c].lastError
             ELSE IF rawArticles[c].articles = <<>>
             THEN requests'[r].pc = "done" /\ resp.status = 404
             ELSE IF FreshCache(analysisCache[c], now')
             THEN requests'[r].pc = "done" /\ resp.status = 200
                  /\ resp.cache_status # Null
                  /\ resp.cache_status[1].from_cache
             ELSE IF analysisCache[c].isAnalyzing \/ StartedBefore(r)
             THEN requests'[r].pc = "done" /\ resp.status = 202
                  /\ resp.statusText = Some("analyzing")
             ELSE requests'[r].pc = "annotating"]_vars

\* A request was answered 500 while no cycle runs and its category retains
\* articles and has a fresh cached analysis.
C31_Witness ==
    \E r \in Slots :
       /\ Responded(r)
       /\ ResponseOf(requests[r]).status = 500
       /\ requests[r].category \in Categories
       /\ fetcher.pc = "idle"
       /\ rawArticles[requests[r].category].lastError # Null
       /\ RetainedAndFresh(requests[r].category)

\* A request was answered 'loading' while its category is being fetched,
\* retains articles and has a fresh cached analysis.
C31_LoadingOverFreshCache ==
    \E r \in Slots :
       /\ Responded(r)
       /\ ResponseOf(requests[r]).statusText = Some("loading")
       /\ requests[r].category \in Categories
       /\ rawArticles[requests[r].category].isLoading
       /\ RetainedAndFresh(requests[r].category)

\* The step that ends the processing of category c in a cycle (lines
\* 288-308).
CategoryEnds(c) ==
    /\ fetcher.pc = "feedDelay"
    /\ fetcher' # fetcher
    /\ CurCategory = c
    /\ fetcher.feed = Len(CurFeeds)

\* The distinct urls among the retained articles of c and those fetched in
\* the running cycle.
DistinctUrls(c) ==
    {a.url : a \in {(rawArticles[c].articles \o fetcher.allArticles)[i] :
                       i \in 1..(Len(rawArticles[c].articles)
                                   + Len(fetcher.allArticles))}}

\* C32: the number of articles retained for a category never decreases.
\* The step that ends a category whose sources all failed leaves it
\* unchanged; the step that ends a category with a source that succeeded
\* sets it to min(10, distinct urls among retained and fetched articles);
\* no other step changes it.
C32_RetainedNeverDecreases ==
    [][\A c \in Categories :
         LET before == Len(rawArticles[c].articles)
             after == Len(rawArticles'[c].articles)
         IN  /\ after >= before
             /\ after =
                  IF CategoryEnds(c) /\ fetcher.categorySuccess
                  THEN Min(RetainedCount, Cardinality(DistinctUrls(c)))
                  ELSE before]_vars

\* Two cycles have ended: the list of "breaking" is full, and in the last
\* cycle at least one of its sources returned articles.
C32_Witness ==
    /\ fetcher.cycles > 1
    /\ fetcher.pc = "idle"
    /\ Len(rawArticles["breaking"].articles) = RetainedCount
    /\ rawArticles["breaking"].lastError = Null
    /\ \E i \in 1..RetainedCount :
          rawArticles["breaking"].articles[i].url = "u14"

\* A cycle in which every source of "breaking" failed has ended, and the
\* articles retained before it are still there.
C32_KeptAfterFailure ==
    /\ fetcher.cycles > 1
    /\ fetcher.pc = "idle"
    /\ rawArticles["breaking"].lastError # Null
    /\ Len(rawArticles["breaking"].articles) = RetainedCount

\* A fetch cycle is processing the sources of category c.
Processing(c) == fetcher.pc # "idle" /\ CurCategory = c

\* C33: isLoading of a category is true only while a fetch cycle is
\* processing the category's sources (and then it is true); the step that
\* ends the processing sets it to false, whether a source succeeded or all
\* failed; and with every fetch attempt returning or failing, a category
\* that is loading is later not loading.
C33_LoadingOnlyWhileProcessing ==
    /\ [](\A c \in Categories : rawArticles[c].isLoading <=> Processing(c))
    /\ [][\A c \in Categories : CategoryEnds(c) => ~rawArticles'[c].isLoading]_vars
    /\ \A c \in Categories :
          rawArticles[c].isLoading ~> ~rawArticles[c].isLoading

\* The cycle is processing "technology" after every source of "breaking"
\* failed: "breaking" carries the error and is not loading.
C33_Witness ==
    /\ Processing("technology")
    /\ rawArticles["technology"].isLoading
    /\ rawArticles["breaking"].lastError # Null
    /\ ~rawArticles["breaking"].isLoading

====
